---- MODULE Spec2Model ----
(***************************************************************************)
(* Model of the torrent / media-manager tools:                             *)
(*   qBittorrent/relocated-torrent.py  (restore planner / executor, main)  *)
(*   qBittorrent/build_catalog.py      (history merge, run of the build)   *)
(*   Radarr/radar_movies_import.py     (movie export, torrent matcher)     *)
(*   Radarr/radarr_history_export.py   (history fetch, event helpers)      *)
(*                                                                         *)
(* Text is modelled as a sequence of one-character strings, so that the    *)
(* conversions of the code (strip, lower, upper, split) are computed.      *)
(* Python's None is the text None; a dictionary key that is not present    *)
(* is the text Absent (setdefault distinguishes the two).                  *)
(***************************************************************************)
EXTENDS Integers, Sequences, FiniteSets, TLC

None == <<"None">>
Absent == <<"Absent">>

(***************************************************************************)
(* Text helpers (Python str methods)                                       *)
(***************************************************************************)
UpperLetters ==
    <<"A", "B", "C", "D", "E", "F", "G", "H", "I", "J", "K", "L", "M",
      "N", "O", "P", "Q", "R", "S", "T", "U", "V", "W", "X", "Y", "Z">>

LowerLetters ==
    <<"a", "b", "c", "d", "e", "f", "g", "h", "i", "j", "k", "l", "m",
      "n", "o", "p", "q", "r", "s", "t", "u", "v", "w", "x", "y", "z">>

\* str.lower(), one character
LowerChar(c) ==
    IF \E i \in 1..26 : UpperLetters[i] = c
    THEN LowerLetters[CHOOSE i \in 1..26 : UpperLetters[i] = c]
    ELSE c

\* str.upper(), one character
UpperChar(c) ==
    IF \E i \in 1..26 : LowerLetters[i] = c
    THEN UpperLetters[CHOOSE i \in 1..26 : LowerLetters[i] = c]
    ELSE c

Lower(s) == [i \in 1..Len(s) |-> LowerChar(s[i])]

Upper(s) == [i \in 1..Len(s) |-> UpperChar(s[i])]

IsSpace(c) == c = " "

\* str.strip(): leading and trailing white space removed
Strip(s) ==
    LET nonsp == {i \in 1..Len(s) : ~IsSpace(s[i])}
    IN  IF nonsp = {} THEN <<>>
        ELSE LET lo == CHOOSE i \in nonsp : \A j \in nonsp : i <= j
                 hi == CHOOSE i \in nonsp : \A j \in nonsp : i >= j
             IN  SubSeq(s, lo, hi)

\* str.split(","): the pieces between commas, empty pieces included
RECURSIVE SplitComma(_)
SplitComma(s) ==
    LET commas == {i \in 1..Len(s) : s[i] = ","}
    IN  IF commas = {} THEN <<s>>
        ELSE LET k == CHOOSE i \in commas : \A j \in commas : i <= j
             IN  <<SubSeq(s, 1, k - 1)>> \o SplitComma(SubSeq(s, k + 1, Len(s)))

\* str.endswith(suffix)
EndsWith(s, suf) ==
    /\ Len(s) >= Len(suf)
    /\ SubSeq(s, Len(s) - Len(suf) + 1, Len(s)) = suf

\* Python truthiness of an optional text: None and "" are false
Truthy(v) == v # None /\ v # Absent /\ v # <<>>

\* Python's  a or b
Or2(a, b) == IF Truthy(a) THEN a ELSE b

Range(s) == {s[i] : i \in 1..Len(s)}

(***************************************************************************)
(* relocated-torrent.py: helpers                                           *)
(***************************************************************************)
\* parse_tags: the lower-cased, stripped, non-empty pieces of a tag list
parse_tags(tag_str) ==
    IF ~Truthy(tag_str) THEN <<>>
    ELSE LET parts == SplitComma(tag_str)
             keep == {i \in 1..Len(parts) : Strip(parts[i]) # <<>>}
             RECURSIVE Build(_)
             Build(i) == IF i > Len(parts) THEN <<>>
                         ELSE IF i \in keep
                              THEN <<Lower(Strip(parts[i]))>> \o Build(i + 1)
                              ELSE Build(i + 1)
         IN  Build(1)

\* str(Path(p).parent) for a POSIX path
PathParent(p) ==
    LET nontrail == {i \in 1..Len(p) : p[i] # "/"}
    IN  IF nontrail = {} THEN (IF Len(p) > 0 THEN <<"/">> ELSE <<".">>)
        ELSE LET e == CHOOSE i \in nontrail : \A j \in nontrail : i >= j
                 q == SubSeq(p, 1, e)
                 sl == {i \in 1..Len(q) : q[i] = "/"}
             IN  IF sl = {} THEN <<".">>
                 ELSE LET k == CHOOSE i \in sl : \A j \in sl : i >= j
                          head == SubSeq(q, 1, k - 1)
                          hn == {i \in 1..Len(head) : head[i] # "/"}
                      IN  IF hn = {} THEN <<"/">>
                          ELSE SubSeq(head, 1, CHOOSE i \in hn : \A j \in hn : i >= j)

\* dirname_of_path
dirname_of_path(p) == IF ~Truthy(p) THEN None ELSE PathParent(p)

(***************************************************************************)
(* relocated-torrent.py: inputs of a run                                   *)
(***************************************************************************)
\* longest torrent listing the client returns
MaxTorrents == 2
\* most entries in the input JSON document
MaxEntries == 2

\* a torrent as /api/v2/torrents/info returns it
Torrent(h, tags, sp) == [hash |-> h, tags |-> tags, name |-> h, save_path |-> sp, state |-> "pausedUP"]

TorrentPool ==
    { Torrent(<<"a", "b">>, <<"r">>, <<"/", "o">>),
      Torrent(<<"c", "d">>, <<"x", ",", " ", "R">>, <<"/", "o">>),
      Torrent(<<"e", "f">>, <<"x">>, <<"/", "o">>),
      Torrent(<<>>, <<"r">>, <<"/", "o">>) }

\* the sequences of at most n elements of S
RECURSIVE SeqsUpTo(_, _)
SeqsUpTo(S, n) ==
    IF n = 0 THEN {<<>>}
    ELSE LET shorter == SeqsUpTo(S, n - 1)
         IN  shorter \cup {Append(q, e) : q \in {r \in shorter : Len(r) = n - 1}, e \in S}

NoRepeat(q) == \A i, j \in 1..Len(q) : q[i] = q[j] => i = j

TorrentListings == {q \in SeqsUpTo(TorrentPool, MaxTorrents) : NoRepeat(q)}

\* an element of the input document: a JSON object with the fields the code reads
EntryDefaults ==
    [isdict |-> TRUE, lastHash |-> Absent, torrent_hash |-> Absent, torrentHash |-> Absent,
     hash |-> Absent, folder |-> Absent, Folder |-> Absent, importedFilePath |-> Absent,
     moviefile_path |-> Absent, movieFile |-> Absent, mkv_file |-> Absent]

P_d == <<"/", "d">>
P_e == <<"/", "e">>
P_dfmkv == <<"/", "d", "/", "f", ".", "m", "k", "v">>
P_dfMKV == <<"/", "d", "/", "f", ".", "M", "K", "V">>
Ext_mkv == <<".", "m", "k", "v">>

EntryPool ==
    { [EntryDefaults EXCEPT !.torrent_hash = <<"A", "B">>, !.folder = P_d],
      [EntryDefaults EXCEPT !.lastHash = <<" ", "a", "b", " ">>, !.folder = None, !.mkv_file = P_dfmkv],
      [EntryDefaults EXCEPT !.hash = <<"c", "d">>, !.folder = P_dfMKV],
      [EntryDefaults EXCEPT !.torrentHash = <<"C", "D">>, !.folder = P_e],
      [EntryDefaults EXCEPT !.torrent_hash = <<"c", "d">>],
      [EntryDefaults EXCEPT !.isdict = FALSE] }

\* the input file: absent, or a JSON object, a JSON list, or another JSON value
Documents ==
    { [kind |-> "missing", items |-> <<>>], [kind |-> "other", items |-> <<>>] }
    \cup { [kind |-> k, items |-> q] :
             k \in {"dict", "list"},
             q \in {r \in SeqsUpTo(EntryPool, MaxEntries) : NoRepeat(r)} }

\* what the user types at the confirmation prompt
Answers ==
    { <<"y">>, <<" ", "Y", "e", "s">>, <<"O">>, <<"o", "u", "i", " ">>,
      <<"n">>, <<>>, <<"n", "o">>, <<"y", "y">> }

Affirmative == { <<"y">>, <<"y", "e", "s">>, <<"o">>, <<"o", "u", "i">> }

(***************************************************************************)
(* relocated-torrent.py: load_input_json and the planning of main          *)
(***************************************************************************)
\* dict.get(key): None when the key is absent
Get(v) == IF v = Absent THEN None ELSE v

EmptyMap == [h \in {} |-> EntryDefaults]

\* the hash key of one element, by the form of the document
EntryHash(kind, v) ==
    LET raw == IF kind = "dict"
               THEN Or2(v.lastHash, Or2(v.torrent_hash, Or2(v.torrentHash, Or2(v.hash, <<>>))))
               ELSE Or2(v.torrent_hash, Or2(v.lastHash, Or2(v.hash, <<>>)))
    IN  Upper(Strip(raw))

\* the by_hash map after the elements items[1..n]; a later element replaces
\* an earlier one with the same key
RECURSIVE ByHash(_, _, _)
ByHash(kind, items, n) ==
    IF n = 0 THEN EmptyMap
    ELSE LET prev == ByHash(kind, items, n - 1)
             v == items[n]
             h == EntryHash(kind, v)
         IN  IF ~v.isdict \/ h = <<>> THEN prev
             ELSE [k \in DOMAIN prev \cup {h} |-> IF k = h THEN v ELSE prev[k]]

\* load_input_json: ok is FALSE when it raises
load_input_json(doc) ==
    IF doc.kind \in {"missing", "other"}
    THEN [ok |-> FALSE, map |-> EmptyMap]
    ELSE [ok |-> TRUE, map |-> ByHash(doc.kind, doc.items, Len(doc.items))]

\* the torrents of the listing that carry the tag
RECURSIVE SelectByTag(_, _)
SelectByTag(torrents, tag) ==
    IF torrents = <<>> THEN <<>>
    ELSE LET t == Head(torrents)
             rest == SelectByTag(Tail(torrents), tag)
         IN  IF Lower(tag) \in Range(parse_tags(t.tags)) THEN <<t>> \o rest ELSE rest

\* the target folder resolved from a mapping
TargetFolder(m) ==
    LET file1 == Get(Or2(m.importedFilePath, Or2(m.moviefile_path, Or2(m.movieFile, m.mkv_file))))
        tf == Get(Or2(m.folder, Or2(m.Folder, dirname_of_path(file1))))
        file2 == Get(Or2(m.importedFilePath, Or2(m.moviefile_path, m.mkv_file)))
    IN  IF Truthy(tf) /\ EndsWith(Lower(tf), Ext_mkv)
        THEN dirname_of_path(file2)
        ELSE tf

\* a lookup by the hash as the client lists it
TorrentKey_AsListed(t) == Strip(Or2(t.hash, <<>>))

\* h = (t.get("hash") or "").strip().upper()
TorrentKey(t) == Upper(Strip(Or2(t.hash, <<>>)))

\* the actions built from the selected torrents, in their order
RECURSIVE BuildActions(_, _)
BuildActions(selected, imap) ==
    IF selected = <<>> THEN <<>>
    ELSE LET t == Head(selected)
             rest == BuildActions(Tail(selected), imap)
             h == TorrentKey(t)
         IN  IF h = <<>> \/ h \notin DOMAIN imap THEN rest
             ELSE <<[hash |-> h, name |-> t.name, save_path |-> Or2(t.save_path, <<>>),
                     state |-> t.state, target_folder |-> TargetFolder(imap[h])]>> \o rest

(***************************************************************************)
(* relocated-torrent.py: state of a script run                             *)
(***************************************************************************)
VARIABLES
    DRY_RUN,        \* the module global, True when the module is loaded
    pc,             \* where main is
    args,           \* the parsed command line: apply, yes, tag
    stdin_tty,      \* sys.stdin.isatty() of the process
    input_map,      \* hash -> entry, from load_input_json
    input_doc,      \* history: the document load_input_json read
    all_torrents,   \* the listing fetched from the client
    actions,        \* the planned actions
    ai,             \* number of actions the apply loop has handled
    results,        \* the result rows of the apply loop
    qb_calls,       \* every request sent to the torrent client, in order
    answer,         \* what input() returned at the prompt, None when not asked
    out_plan,       \* OUT_PLAN: whether it was written, and the plan rows
    out_results,    \* OUT_RESULTS: whether it was written, and the result rows
    rc              \* the exit status of the process, -1 while it runs

vars_restore ==
    <<DRY_RUN, pc, args, stdin_tty, input_map, input_doc, all_torrents, actions, ai, results,
      qb_calls, answer, out_plan, out_results, rc>>

ArgTags == { <<"R">> }

\* no document has been read
NoDocument == [kind |-> "unread", items |-> <<>>]

NoArgs == [apply |-> FALSE, yes |-> FALSE, tag |-> <<>>]

Running == -1

NotWritten == [written |-> FALSE, rows |-> <<>>]

\* the state right after the module is loaded by a new process
ModuleLoaded ==
    /\ DRY_RUN = TRUE
    /\ pc = "main"
    /\ args = NoArgs
    /\ stdin_tty \in BOOLEAN
    /\ input_map = EmptyMap
    /\ input_doc = NoDocument
    /\ all_torrents = <<>>
    /\ actions = <<>>
    /\ ai = 0
    /\ results = <<>>
    /\ qb_calls = <<>>
    /\ answer = None
    /\ out_plan = NotWritten
    /\ out_results = NotWritten
    /\ rc = Running

\* main returns (or raises): the __main__ block turns the value into the exit status
Return(code) == pc' = "exited" /\ rc' = code

\* a toggle that disables the dry run whatever the flag
ToggleDryRun_Always(apply, cur) == FALSE

\* toggle DRY_RUN from CLI: --apply disables it, its absence leaves the global alone
ToggleDryRun(apply, cur) == IF apply THEN FALSE ELSE cur

\* argument parsing and the DRY_RUN toggle
Main_ParseArgs(apply, yes, tag) ==
    /\ pc = "main"
    /\ args' = [apply |-> apply, yes |-> yes, tag |-> tag]
    /\ DRY_RUN' = ToggleDryRun(apply, DRY_RUN)
    /\ pc' = "load"
    /\ UNCHANGED <<stdin_tty, input_map, input_doc, all_torrents, actions, ai, results, qb_calls,
                   answer, out_plan, out_results, rc>>

\* load mapping JSON; a failure returns 1
Main_LoadInput(doc) ==
    /\ pc = "load"
    /\ input_doc' = doc
    /\ LET r == load_input_json(doc)
       IN  IF r.ok
           THEN input_map' = r.map /\ pc' = "login" /\ rc' = rc
           ELSE input_map' = input_map /\ Return(1)
    /\ UNCHANGED <<DRY_RUN, args, stdin_tty, all_torrents, actions, ai, results, qb_calls,
                   answer, out_plan, out_results>>

\* login to qBittorrent; a failure returns 2
Main_Login(ok) ==
    /\ pc = "login"
    /\ qb_calls' = Append(qb_calls, [op |-> "login", hash |-> <<>>, location |-> <<>>, ok |-> ok])
    /\ IF ok THEN pc' = "fetch" /\ rc' = rc ELSE Return(2)
    /\ UNCHANGED <<DRY_RUN, args, stdin_tty, input_map, input_doc, all_torrents, actions, ai, results,
                   answer, out_plan, out_results>>

\* fetch torrents; a failure returns 3
Main_FetchTorrents(ok, listing) ==
    /\ pc = "fetch"
    /\ qb_calls' = Append(qb_calls, [op |-> "info", hash |-> <<>>, location |-> <<>>, ok |-> ok])
    /\ IF ok
       THEN all_torrents' = listing /\ pc' = "plan" /\ rc' = rc
       ELSE all_torrents' = all_torrents /\ Return(3)
    /\ UNCHANGED <<DRY_RUN, args, stdin_tty, input_map, input_doc, actions, ai, results,
                   answer, out_plan, out_results>>

\* filter by tag, build the actions; no action returns 0
Main_Plan ==
    /\ pc = "plan"
    /\ LET selected == SelectByTag(all_torrents, args.tag)
           acts == BuildActions(selected, input_map)
       IN  /\ actions' = acts
           /\ IF acts = <<>> THEN Return(0) ELSE pc' = "gate" /\ rc' = rc
    /\ UNCHANGED <<DRY_RUN, args, stdin_tty, input_map, input_doc, all_torrents, ai, results, qb_calls,
                   answer, out_plan, out_results>>

\* the row of the dry-run plan for one action
PlanRow(a) ==
    [hash |-> a.hash, name |-> a.name, from_save_path |-> a.save_path,
     to_folder |-> a.target_folder, note |-> "DRY_RUN - no action performed"]

\* if DRY_RUN: write the plan and return 0
Main_DryRunGate ==
    /\ pc = "gate"
    /\ IF DRY_RUN
       THEN /\ out_plan' = [written |-> TRUE, rows |-> [i \in 1..Len(actions) |-> PlanRow(actions[i])]]
            /\ Return(0)
       ELSE /\ out_plan' = out_plan
            /\ pc' = "confirm"
            /\ rc' = rc
    /\ UNCHANGED <<DRY_RUN, args, stdin_tty, input_map, input_doc, all_torrents, actions, ai, results,
                   qb_calls, answer, out_results>>

\* a prompt that takes everything but a refusal as a yes
Confirms_DefaultYes(ans) == Lower(Strip(ans)) \notin { <<"n">>, <<"n", "o">> }

\* whether the typed answer confirms
Confirms(ans) == Lower(Strip(ans)) \in Affirmative

\* a gate that skips silently, with status 0, when there is no terminal
ConfirmGate_SilentSkip(yes, tty, eof, ans) ==
    IF yes THEN "apply"
    ELSE IF ~tty THEN "return 0"
    ELSE IF eof THEN "raise"
    ELSE IF Confirms(ans) THEN "apply" ELSE "return 0"

\* the confirmation gate: "apply", "return 0", "return 1", or "raise" when
\* input() raises EOFError, which nothing catches
ConfirmGate(yes, tty, eof, ans) ==
    IF yes THEN "apply"
    ELSE IF ~tty THEN "return 1"
    ELSE IF eof THEN "raise"
    ELSE IF Confirms(ans) THEN "apply" ELSE "return 0"

\* if applying, confirm unless --yes
Main_Confirm(ans, eof) ==
    /\ pc = "confirm"
    /\ LET g == ConfirmGate(args.yes, stdin_tty, eof, ans)
       IN  /\ answer' = IF ~args.yes /\ stdin_tty /\ ~eof THEN ans ELSE answer
           /\ CASE g = "apply" -> pc' = "apply" /\ rc' = rc
                [] g = "return 0" -> Return(0)
                [] g = "return 1" -> Return(1)
                [] g = "raise" -> Return(1)
    /\ UNCHANGED <<DRY_RUN, args, stdin_tty, input_map, input_doc, all_torrents, actions, ai, results,
                   qb_calls, out_plan, out_results>>

ApplyOutcomes == {"setLocation_fails", "recheck_fails", "info_fails", "info_empty", "ok"}

\* a request of the apply loop and whether it succeeded
Call_setLocation(a, ok) ==
    [op |-> "setLocation", hash |-> a.hash, location |-> a.target_folder, ok |-> ok]

Call_recheck(a, ok) == [op |-> "recheck", hash |-> a.hash, location |-> <<>>, ok |-> ok]

Call_info(a, ok) == [op |-> "info", hash |-> a.hash, location |-> <<>>, ok |-> ok]

\* a loop that goes on to the recheck when setLocation has failed
ApplyCalls_RecheckAnyway(a, o) ==
    IF ~Truthy(a.target_folder) THEN <<>>
    ELSE IF o = "setLocation_fails" THEN <<Call_setLocation(a, FALSE), Call_recheck(a, TRUE)>>
    ELSE IF o = "recheck_fails" THEN <<Call_setLocation(a, TRUE), Call_recheck(a, FALSE)>>
    ELSE <<Call_setLocation(a, TRUE), Call_recheck(a, TRUE), Call_info(a, o # "info_fails")>>

\* a loop that asks for the recheck before it sets the location
ApplyCalls_RecheckFirst(a, o) ==
    IF ~Truthy(a.target_folder) THEN <<>>
    ELSE IF o = "setLocation_fails" THEN <<Call_setLocation(a, FALSE)>>
    ELSE IF o = "recheck_fails" THEN <<Call_recheck(a, FALSE), Call_setLocation(a, TRUE)>>
    ELSE <<Call_recheck(a, TRUE), Call_setLocation(a, TRUE), Call_info(a, o # "info_fails")>>

\* a loop that does not look whether the action has a target folder
ApplyCalls_TargetUnchecked(a, o) ==
    IF o = "setLocation_fails" THEN <<Call_setLocation(a, FALSE)>>
    ELSE IF o = "recheck_fails" THEN <<Call_setLocation(a, TRUE), Call_recheck(a, FALSE)>>
    ELSE <<Call_setLocation(a, TRUE), Call_recheck(a, TRUE), Call_info(a, o # "info_fails")>>

\* the requests one iteration of the apply loop sends, each with its outcome
ApplyCalls(a, o) ==
    IF ~Truthy(a.target_folder) THEN <<>>
    ELSE IF o = "setLocation_fails" THEN <<Call_setLocation(a, FALSE)>>
    ELSE IF o = "recheck_fails" THEN <<Call_setLocation(a, TRUE), Call_recheck(a, FALSE)>>
    ELSE <<Call_setLocation(a, TRUE), Call_recheck(a, TRUE), Call_info(a, o # "info_fails")>>

\* the result row one iteration of the apply loop appends
ApplyRow(a, o) ==
    LET row == [hash |-> a.hash, name |-> a.name, ok_setLocation |-> FALSE,
                ok_recheck |-> FALSE, state_after |-> "None", notes |-> <<>>]
    IN  IF ~Truthy(a.target_folder)
        THEN [row EXCEPT !.notes = <<"no target_folder in mapping">>]
        ELSE IF o = "setLocation_fails"
        THEN [row EXCEPT !.notes = <<"setLocation failed">>]
        ELSE IF o = "recheck_fails"
        THEN [row EXCEPT !.ok_setLocation = TRUE, !.notes = <<"recheck failed">>]
        ELSE IF o = "info_fails"
        THEN [row EXCEPT !.ok_setLocation = TRUE, !.ok_recheck = TRUE,
                         !.notes = <<"fetch info after recheck failed">>]
        ELSE IF o = "info_empty"
        THEN [row EXCEPT !.ok_setLocation = TRUE, !.ok_recheck = TRUE]
        ELSE [row EXCEPT !.ok_setLocation = TRUE, !.ok_recheck = TRUE,
                         !.state_after = "checkingUP"]

\* a loop that keeps no row for an action whose setLocation failed
ApplyResults_FailuresDropped(res, a, o) ==
    IF Truthy(a.target_folder) /\ o = "setLocation_fails" THEN res ELSE Append(res, ApplyRow(a, o))

\* results.append(row), on every path through the loop body
ApplyResults(res, a, o) == Append(res, ApplyRow(a, o))

\* one iteration of the apply loop
Main_ApplyAction(o) ==
    /\ pc = "apply"
    /\ ai < Len(actions)
    /\ LET a == actions[ai + 1]
       IN  /\ qb_calls' = qb_calls \o ApplyCalls(a, o)
           /\ results' = ApplyResults(results, a, o)
    /\ ai' = ai + 1
    /\ UNCHANGED <<DRY_RUN, pc, args, stdin_tty, input_map, input_doc, all_torrents, actions,
                   answer, out_plan, out_results, rc>>

\* save results and return 0
Main_SaveResults ==
    /\ pc = "apply"
    /\ ai = Len(actions)
    /\ out_results' = [written |-> TRUE, rows |-> results]
    /\ Return(0)
    /\ UNCHANGED <<DRY_RUN, args, stdin_tty, input_map, input_doc, all_torrents, actions, ai, results,
                   qb_calls, answer, out_plan>>

\* the script is run again: a new process loads the module
NewProcess ==
    /\ pc = "exited"
    /\ DRY_RUN' = TRUE
    /\ pc' = "main"
    /\ args' = NoArgs
    /\ stdin_tty' \in BOOLEAN
    /\ input_map' = EmptyMap
    /\ input_doc' = NoDocument
    /\ all_torrents' = <<>>
    /\ actions' = <<>>
    /\ ai' = 0
    /\ results' = <<>>
    /\ qb_calls' = <<>>
    /\ answer' = None
    /\ out_plan' = NotWritten
    /\ out_results' = NotWritten
    /\ rc' = Running

\* main is called again by the process that called it before: its locals are
\* new, the module global DRY_RUN is what the earlier call left
Main_Again ==
    /\ pc = "exited"
    /\ pc' = "main"
    /\ args' = NoArgs
    /\ input_map' = EmptyMap
    /\ input_doc' = NoDocument
    /\ all_torrents' = <<>>
    /\ actions' = <<>>
    /\ ai' = 0
    /\ results' = <<>>
    /\ qb_calls' = <<>>
    /\ answer' = None
    /\ out_plan' = NotWritten
    /\ out_results' = NotWritten
    /\ rc' = Running
    /\ UNCHANGED <<DRY_RUN, stdin_tty>>

(***************************************************************************)
(* build_catalog.py: dates                                                 *)
(*                                                                         *)
(* A date text is None, an unparsable text, or an ISO text that denotes    *)
(* the instant t written with the UTC offset off.  An instant is an        *)
(* integer, 0 being 1970-01-01T00:00:00Z.                                  *)
(***************************************************************************)
\* datetime.min, the instant parse_dt returns for what it cannot parse
DtMin == -1

NoDate == [kind |-> "none", t |-> 0, off |-> 0]

BadDate == [kind |-> "bad", t |-> 0, off |-> 0]

IsoDate(t, off) == [kind |-> "iso", t |-> t, off |-> off]

\* "1970-01-01T00:00:00Z"
EpochText == IsoDate(0, 0)

\* iso: the instant written in UTC
iso(dt) == IsoDate(dt, 0)

\* a parser that takes the present instant for what it cannot parse
parse_dt_NowForBad(iso_s) == IF iso_s.kind = "iso" THEN iso_s.t ELSE 9

\* parse_dt: the instant of an ISO text, datetime.min for anything else
parse_dt(iso_s) == IF iso_s.kind = "iso" THEN iso_s.t ELSE DtMin

(***************************************************************************)
(* build_catalog.py: catalog entries and the merge helpers                 *)
(*                                                                         *)
(* An entry is a dictionary: keys is the set of its keys, and a field      *)
(* whose key is absent holds a filler value that nothing reads.  Numbers   *)
(* (year, season, episode, ids) are texts of one token.                    *)
(***************************************************************************)
EmptyEntry ==
    [keys |-> {}, title |-> None, year |-> None, season |-> None, episode |-> None,
     candidates |-> <<>>, removed |-> <<>>, latest |-> None, max_event_at |-> NoDate]

\* dict.setdefault(k, v)
SetDefault(e, k, v) == IF k \in e.keys THEN e ELSE [e EXCEPT !.keys = @ \cup {k}, ![k] = v]

\* Python truthiness of an optional number: None and 0 are false
TruthyNum(v) == v # None /\ v # Absent /\ v # <<"0">>

\* a hash kept in the case it came in
NormHash_CaseKept(add_hash) == Strip(Or2(add_hash, <<>>))

\* the hash as stored: (add_hash or "").lower().strip()
NormHash(add_hash) == Strip(Lower(Or2(add_hash, <<>>)))

\* an append that does not look whether the hash is already there
CandidatesAdd_NoDedupe(cands, cur) == IF cur # <<>> THEN Append(cands, cur) ELSE cands

\* an append that was left out
CandidatesAdd_Omitted(cands, cur) == cands

\* an assignment in place of the append
CandidatesAdd_Overwrite(cands, cur) == IF cur # <<>> THEN <<cur>> ELSE cands

\* if cur and cur not in entry["candidates"]: entry["candidates"].append(cur)
CandidatesAdd(cands, cur) ==
    IF cur # <<>> /\ cur \notin Range(cands) THEN Append(cands, cur) ELSE cands

\* parse_dt(entry.get("max_event_at") or "1970-01-01T00:00:00Z")
MaxPrev(e) ==
    parse_dt(IF "max_event_at" \in e.keys /\ e.max_event_at.kind # "none"
             THEN e.max_event_at ELSE EpochText)

\* an update made whatever the date of the event
Raises_Always(e, event_dt) == TRUE

\* an update made for every date but the one already stored
Raises_NotEqual(e, event_dt) == event_dt # MaxPrev(e)

\* if event_dt > max_prev
Raises(e, event_dt) == event_dt > MaxPrev(e)

\* the candidates, the watermark and latest: the tail shared by both merge helpers
MergeHash(e0, add_hash, event_dt) ==
    LET e1 == SetDefault(SetDefault(SetDefault(e0, "candidates", <<>>), "removed", <<>>),
                         "latest", None)
        cur == NormHash(add_hash)
        e2 == [e1 EXCEPT !.candidates = CandidatesAdd(@, cur)]
    IN  IF Raises(e2, event_dt)
        THEN [e2 EXCEPT !.keys = @ \cup {"max_event_at"},
                        !.max_event_at = iso(event_dt),
                        !.latest = Or2(cur, e2.latest)]
        ELSE e2

\* merge_episode
merge_episode(entry, add_hash, event_dt, title, season, epnum) ==
    LET e1 == SetDefault(SetDefault(entry, "season", season), "episode", epnum)
        e2 == IF Truthy(title) THEN SetDefault(e1, "title", title) ELSE e1
    IN  MergeHash(e2, add_hash, event_dt)

\* merge_movie
merge_movie(entry, add_hash, event_dt, title, year) ==
    LET e1 == IF Truthy(title) THEN SetDefault(entry, "title", title) ELSE entry
        e2 == IF TruthyNum(year) THEN SetDefault(e1, "year", year) ELSE e1
    IN  MergeHash(e2, add_hash, event_dt)

(***************************************************************************)
(* build_catalog.py: history items and their classification                *)
(***************************************************************************)
W_grabbed == <<"g", "r", "a", "b", "b", "e", "d">>
W_grab == <<"g", "r", "a", "b">>
W_download == <<"d", "o", "w", "n", "l", "o", "a", "d">>
W_downloadimported == <<"d", "o", "w", "n", "l", "o", "a", "d", "i", "m", "p", "o", "r", "t", "e", "d">>
W_episodefileimported == <<"e", "p", "i", "s", "o", "d", "e", "f", "i", "l", "e", "i", "m", "p", "o", "r", "t", "e", "d">>
W_upgrade == <<"u", "p", "g", "r", "a", "d", "e">>
W_downloadfolderimported == <<"d", "o", "w", "n", "l", "o", "a", "d", "f", "o", "l", "d", "e", "r", "i", "m", "p", "o", "r", "t", "e", "d">>
W_moviefileimported == <<"m", "o", "v", "i", "e", "f", "i", "l", "e", "i", "m", "p", "o", "r", "t", "e", "d">>
W_Grabbed == <<"G", "r", "a", "b", "b", "e", "d">>
W_downloadFolderImported == <<"d", "o", "w", "n", "l", "o", "a", "d", "F", "o", "l", "d", "e", "r", "I", "m", "p", "o", "r", "t", "e", "d">>
W_movieFileDeleted == <<"m", "o", "v", "i", "e", "F", "i", "l", "e", "D", "e", "l", "e", "t", "e", "d">>
W_episodeFileDeleted == <<"e", "p", "i", "s", "o", "d", "e", "F", "i", "l", "e", "D", "e", "l", "e", "t", "e", "d">>

\* a classification that takes every named type
is_rel_radarr_AnyType(ev) == Truthy(ev)

is_rel_sonarr(ev) ==
    Lower(Or2(ev, <<>>)) \in
        {W_grabbed, W_grab, W_download, W_downloadimported, W_episodefileimported,
         W_upgrade, W_downloadfolderimported}

is_rel_radarr(ev) ==
    Lower(Or2(ev, <<>>)) \in
        {W_grabbed, W_grab, W_download, W_moviefileimported, W_downloadfolderimported,
         W_upgrade}

\* a or b, for optional numbers
OrNum(a, b) == IF TruthyNum(a) THEN a ELSE b

\* a Radarr history record: movie_id is movie.id, movieId the field of the record
RItem(type, dl, date, movie_id, movieId, title, year) ==
    [eventType |-> type, downloadId |-> dl, date |-> date, movie_id |-> movie_id,
     movieId |-> movieId, title |-> title, year |-> year]

T_T == <<"T">>
T_U == <<"U">>
N_1 == <<"1">>
N_2 == <<"2">>
N_2020 == <<"2020">>
N_2021 == <<"2021">>
N_0 == <<"0">>

RadarrItems ==
    { RItem(W_grabbed, <<"a">>, IsoDate(1, 0), N_1, Absent, T_T, N_2020),
      RItem(W_grabbed, <<"b">>, IsoDate(2, 0), N_1, Absent, T_T, N_2020),
      RItem(W_grabbed, <<"A", " ">>, IsoDate(2, 0), N_1, Absent, T_T, N_2020),
      RItem(W_grabbed, <<"a">>, IsoDate(0, 0), N_1, Absent, T_T, N_2020),
      RItem(W_grabbed, <<"b">>, BadDate, N_1, Absent, T_T, N_2020),
      RItem(W_downloadFolderImported, <<"c">>, IsoDate(3, 2), N_1, N_1, T_U, N_2021),
      RItem(W_Grabbed, None, IsoDate(3, 0), Absent, N_1, None, N_0),
      RItem(W_grabbed, <<"a">>, IsoDate(1, 0), N_2, Absent, T_T, N_2020),
      RItem(W_movieFileDeleted, <<"b">>, IsoDate(3, 0), N_1, Absent, T_T, N_2020),
      RItem(W_downloadimported, <<"a">>, IsoDate(3, 0), N_1, Absent, T_T, N_2020),
      RItem(W_grabbed, <<"a">>, IsoDate(3, 0), Absent, Absent, T_T, N_2020),
      RItem(W_grabbed, <<"b">>, NoDate, N_2, Absent, Absent, Absent) }

\* a Sonarr history record: ep_* are the fields of its episode object
SItem(type, dl, date, seriesId, seriesTitle, ep_id, episodeId, ep_title, season, epnum) ==
    [eventType |-> type, downloadId |-> dl, date |-> date, seriesId |-> seriesId,
     seriesTitle |-> seriesTitle, ep_id |-> ep_id, episodeId |-> episodeId,
     ep_title |-> ep_title, seasonNumber |-> season, episodeNumber |-> epnum]

SonarrItems ==
    { SItem(W_grabbed, <<"a">>, IsoDate(1, 0), N_1, T_T, N_1, Absent, T_T, N_1, N_1),
      SItem(W_downloadFolderImported, <<"b">>, IsoDate(2, 0), N_1, T_U, N_1, N_1, None, None, None),
      SItem(W_grabbed, <<>>, IsoDate(3, 0), N_1, T_T, Absent, N_1, T_U, N_2, N_2),
      SItem(W_grabbed, <<"b">>, IsoDate(2, 0), N_1, T_T, N_2, Absent, T_T, N_1, N_2),
      SItem(W_episodeFileDeleted, <<"b">>, IsoDate(3, 0), N_1, T_T, N_1, Absent, T_T, N_1, N_1),
      SItem(W_grabbed, <<"a">>, BadDate, Absent, T_T, N_1, Absent, T_T, N_1, N_1) }

\* the torrents the client lists when the build starts
QbTorrents == { Torrent(<<"A">>, <<>>, <<"/", "o">>), Torrent(<<"c">>, <<>>, <<"/", "o">>) }

\* qb_hashes = { (t.get("hash") or "").lower(): t for t in qbt }
QbHashes(qbt) == { Lower(Or2(t.hash, <<>>)) : t \in qbt }

\* a filter that lets through every record that names a hash
QbDrops_EmptyOnly(only, hashes, dl) == only /\ dl = <<>>

\* whether the qb-only filter drops the record
QbDrops(only, hashes, dl) == only /\ (dl = <<>> \/ dl \notin hashes)

\* the call of merge_movie that the loop makes for a record; no call: ns is "skip";
\* raw, date and type are the downloadId, the date and the eventType as the record
\* carries them, src the loop that handles it
RadarrCall(it, only, hashes) ==
    LET dl == NormHash(it.downloadId)
        mid == Get(OrNum(it.movie_id, it.movieId))
    IN  [ns |-> IF is_rel_radarr(it.eventType) /\ ~QbDrops(only, hashes, dl) /\ TruthyNum(mid)
                THEN "radarr" ELSE "skip",
         sid |-> None, st |-> None, id |-> mid, add_hash |-> dl, event_dt |-> parse_dt(it.date),
         title |-> Get(it.title), a |-> Get(it.year), b |-> None, raw |-> Get(it.downloadId),
         date |-> it.date, src |-> "radarr", type |-> Get(it.eventType)]

\* the call of merge_episode that the loop makes for a record; no call: ns is "skip"
SonarrCall(it, only, hashes) ==
    LET dl == NormHash(it.downloadId)
        eid == Get(OrNum(it.ep_id, it.episodeId))
    IN  [ns |-> IF /\ is_rel_sonarr(it.eventType)
                   /\ ~QbDrops(only, hashes, dl)
                   /\ TruthyNum(it.seriesId) /\ TruthyNum(eid)
                THEN "sonarr" ELSE "skip",
         sid |-> Get(it.seriesId), st |-> Get(it.seriesTitle), id |-> eid, add_hash |-> dl,
         event_dt |-> parse_dt(it.date), title |-> Get(it.ep_title),
         a |-> Get(it.seasonNumber), b |-> Get(it.episodeNumber), raw |-> Get(it.downloadId),
         date |-> it.date, src |-> "sonarr", type |-> Get(it.eventType)]

(***************************************************************************)
(* build_catalog.py: the catalog and the merge loops of build_catalog      *)
(***************************************************************************)
\* most merge calls made since the catalog was empty
MaxMerges == 3

VARIABLES
    catalog,        \* the catalog in memory: the sonarr and radarr namespaces
    qb_only,        \* the --qb-only option of the run
    qb_hashes,      \* the lower-cased hashes of the torrents listed by the client
    pc_c,           \* where the build is: "sonarr", "radarr", "saved", "replay"
    merged,         \* history: the merge calls made since the catalog was empty
    batch_from,     \* history: how many of them were made before the current run
    ri,             \* replay: how many calls of the batch the second run has made
    snap,           \* replay: the catalog when the first run ended
    raiser,         \* history: per entry, the hash of the call that last raised max_event_at
    handled         \* history: the record a loop handled last, as the call made or skipped for it

vars_catalog == <<catalog, qb_only, qb_hashes, pc_c, merged, batch_from, ri, snap, raiser, handled>>

NoEntries == [k \in {} |-> EmptyEntry]

NoSeries == [k \in {} |-> [seriesTitle |-> None, episodes |-> NoEntries]]

\* load_catalog of an absent file ("meta" is not modelled)
EmptyCatalog == [sonarr |-> NoSeries, radarr |-> NoEntries]

\* a dictionary replaced by one that holds k alone
Put_Alone(f, k, v) == [x \in {k} |-> v]

\* f with f[k] set to v
Put(f, k, v) == [x \in DOMAIN f \cup {k} |-> IF x = k THEN v ELSE f[x]]

\* the entry a call is about
Key(c) == [ns |-> c.ns, sid |-> c.sid, id |-> c.id]

HasEntry(cat, k) ==
    IF k.ns = "radarr" THEN k.id \in DOMAIN cat.radarr
    ELSE k.sid \in DOMAIN cat.sonarr /\ k.id \in DOMAIN cat.sonarr[k.sid].episodes

\* the entry of a key, the empty dictionary that setdefault would create when it has none
EntryOf(cat, k) ==
    IF ~HasEntry(cat, k) THEN EmptyEntry
    ELSE IF k.ns = "radarr" THEN cat.radarr[k.id]
    ELSE cat.sonarr[k.sid].episodes[k.id]

\* the keys of the entries of a catalog
Keys(cat) ==
    { [ns |-> "radarr", sid |-> None, id |-> m] : m \in DOMAIN cat.radarr }
    \cup UNION { { [ns |-> "sonarr", sid |-> s, id |-> e] : e \in DOMAIN cat.sonarr[s].episodes } :
                 s \in DOMAIN cat.sonarr }

\* the body of a merge loop after the filters: fetch or create the entry, merge into it
ApplyCall(cat, c) ==
    IF c.ns = "radarr"
    THEN [cat EXCEPT !.radarr =
            Put(cat.radarr, c.id,
                merge_movie(EntryOf(cat, Key(c)), c.add_hash, c.event_dt, c.title, c.a))]
    ELSE IF c.ns = "sonarr"
    THEN LET series == IF c.sid \in DOMAIN cat.sonarr THEN cat.sonarr[c.sid]
                       ELSE [seriesTitle |-> c.st, episodes |-> NoEntries]
             epi == merge_episode(EntryOf(cat, Key(c)), c.add_hash, c.event_dt,
                                  c.title, c.a, c.b)
         IN  [cat EXCEPT !.sonarr =
                Put(cat.sonarr, c.sid, [series EXCEPT !.episodes = Put(series.episodes, c.id, epi)])]
    ELSE cat

\* the history kept of one call
NoteRaiser(c) ==
    IF c.ns # "skip" /\ Raises(EntryOf(catalog, Key(c)), c.event_dt)
    THEN Put(raiser, Key(c), c.add_hash)
    ELSE raiser

NoRaiser == [k \in {} |-> <<>>]

\* the build has logged in, listed the torrents and loaded an absent catalog
BuildStarted ==
    /\ catalog = EmptyCatalog
    /\ qb_only \in BOOLEAN
    /\ qb_hashes = QbHashes(QbTorrents)
    /\ pc_c = "sonarr"
    /\ merged = <<>>
    /\ batch_from = 0
    /\ ri = 0
    /\ snap = EmptyCatalog
    /\ raiser = NoRaiser
    /\ handled = <<>>

\* one record of a history page: the filters, then the merge
LoopBody(c) ==
    /\ handled' = <<c>>
    /\ IF c.ns = "skip"
       THEN UNCHANGED <<catalog, merged, raiser>>
       ELSE /\ Len(merged) < MaxMerges
            /\ catalog' = ApplyCall(catalog, c)
            /\ merged' = Append(merged, c)
            /\ raiser' = NoteRaiser(c)

\* one record of the Sonarr loop
Sonarr_Item(it) ==
    /\ pc_c = "sonarr"
    /\ LoopBody(SonarrCall(it, qb_only, qb_hashes))
    /\ UNCHANGED <<qb_only, qb_hashes, pc_c, batch_from, ri, snap>>

\* the Sonarr pages are exhausted
Sonarr_Done ==
    /\ pc_c = "sonarr"
    /\ pc_c' = "radarr"
    /\ handled' = <<>>
    /\ UNCHANGED <<catalog, qb_only, qb_hashes, merged, batch_from, ri, snap, raiser>>

\* one record of the Radarr loop
Radarr_Item(it) ==
    /\ pc_c = "radarr"
    /\ LoopBody(RadarrCall(it, qb_only, qb_hashes))
    /\ UNCHANGED <<qb_only, qb_hashes, pc_c, batch_from, ri, snap>>

\* the Radarr pages are exhausted: meta, save
Radarr_Done ==
    /\ pc_c = "radarr"
    /\ pc_c' = "saved"
    /\ handled' = <<>>
    /\ UNCHANGED <<catalog, qb_only, qb_hashes, merged, batch_from, ri, snap, raiser>>

\* a second run starts over the same history window: it will merge the same batch
Rerun_Start ==
    /\ pc_c = "saved"
    /\ pc_c' = "replay"
    /\ ri' = batch_from
    /\ snap' = catalog
    /\ UNCHANGED <<catalog, qb_only, qb_hashes, merged, batch_from, raiser, handled>>

\* the second run merges the next event of the batch
Rerun_Item ==
    /\ pc_c = "replay"
    /\ ri < Len(merged)
    /\ catalog' = ApplyCall(catalog, merged[ri + 1])
    /\ raiser' = NoteRaiser(merged[ri + 1])
    /\ ri' = ri + 1
    /\ UNCHANGED <<qb_only, qb_hashes, pc_c, merged, batch_from, snap, handled>>

\* the second run ends
Rerun_Done ==
    /\ pc_c = "replay"
    /\ ri = Len(merged)
    /\ pc_c' = "saved"
    /\ UNCHANGED <<catalog, qb_only, qb_hashes, merged, batch_from, ri, snap, raiser, handled>>

\* a later run starts on the saved catalog, over a new history window
NextRun ==
    /\ pc_c = "saved"
    /\ pc_c' = "sonarr"
    /\ batch_from' = Len(merged)
    /\ UNCHANGED <<catalog, qb_only, qb_hashes, merged, ri, snap, raiser, handled>>

(***************************************************************************)
(* build_catalog.py: save_catalog and the files it touches                 *)
(*                                                                         *)
(* A document is the text json.dump writes, a sequence of chunks that      *)
(* opens with "{" and closes with "}".  The file system maps the two paths *)
(* save_catalog names to what they hold.  A write reaches the disk chunk   *)
(* by chunk, so a process that dies leaves any prefix of what it wrote.    *)
(***************************************************************************)
\* most calls of save_catalog in one behaviour
MaxSaves == 3

\* what a path holds when no file is there
NoFile == <<"ENOENT">>

\* the catalog documents json.dump can write
CatalogDocs == { <<"{", "}">>, <<"{", "a", "}">>, <<"{", "a", "b", "}">> }

\* a whole document: it opens and it closes
Complete(d) == d # NoFile /\ Len(d) >= 2 /\ d[1] = "{" /\ d[Len(d)] = "}"

\* CATALOG_PATH
CATALOG_PATH == "catalog.json"

\* a write made in place, on the path itself
TmpPath_InPlace(path) == path

\* tmp = path + ".tmp"
TmpPath(path) == IF path = "catalog.json" THEN "catalog.json.tmp" ELSE "other.tmp"

\* os.replace(src, dst): dst holds what src held, src is gone
os_replace(f, src, dst) ==
    IF src = dst THEN f ELSE [f EXCEPT ![dst] = f[src], ![src] = NoFile]

VARIABLES
    fs,             \* the file system: what CATALOG_PATH and its .tmp hold
    pc_s,           \* where save_catalog is: "idle", "open", "dump", "replace", "done"
    doc_new,        \* the document save_catalog was called with
    doc_old,        \* history: what CATALOG_PATH held when save_catalog was called
    crashed,        \* the process died, or an exception left save_catalog, before the step at pc_s
    n_saves         \* history: the calls of save_catalog so far

vars_save == <<fs, pc_s, doc_new, doc_old, crashed, n_saves>>

\* no save has been made: no catalog file, no temporary file
SaveIdle ==
    /\ fs = [f \in {CATALOG_PATH, TmpPath(CATALOG_PATH)} |-> NoFile]
    /\ pc_s = "idle"
    /\ doc_new = NoFile
    /\ doc_old = NoFile
    /\ crashed = FALSE
    /\ n_saves = 0

\* a run of the build reaches save_catalog(cat, path); ensure_dir has made the directory
Save_Call(doc) ==
    /\ pc_s \in {"idle", "done"} \/ crashed
    /\ n_saves < MaxSaves
    /\ doc_new' = doc
    /\ doc_old' = fs[CATALOG_PATH]
    /\ pc_s' = "open"
    /\ crashed' = FALSE
    /\ n_saves' = n_saves + 1
    /\ UNCHANGED fs

\* open(tmp, "w"): the file is created, or emptied
Save_OpenTmp ==
    /\ pc_s = "open" /\ ~crashed
    /\ fs' = [fs EXCEPT ![TmpPath(CATALOG_PATH)] = <<>>]
    /\ pc_s' = "dump"
    /\ UNCHANGED <<doc_new, doc_old, crashed, n_saves>>

\* json.dump: the next chunk of the document reaches the file
Save_Write ==
    /\ pc_s = "dump" /\ ~crashed
    /\ Len(fs[TmpPath(CATALOG_PATH)]) < Len(doc_new)
    /\ fs' = [fs EXCEPT ![TmpPath(CATALOG_PATH)] = Append(@, doc_new[Len(@) + 1])]
    /\ UNCHANGED <<pc_s, doc_new, doc_old, crashed, n_saves>>

\* the with block ends: the file is closed with the whole document in it
Save_Close ==
    /\ pc_s = "dump" /\ ~crashed
    /\ Len(fs[TmpPath(CATALOG_PATH)]) = Len(doc_new)
    /\ pc_s' = "replace"
    /\ UNCHANGED <<fs, doc_new, doc_old, crashed, n_saves>>

\* os.replace(tmp, path)
Save_Replace ==
    /\ pc_s = "replace" /\ ~crashed
    /\ fs' = os_replace(fs, TmpPath(CATALOG_PATH), CATALOG_PATH)
    /\ pc_s' = "done"
    /\ UNCHANGED <<doc_new, doc_old, crashed, n_saves>>

\* the process dies, or an exception leaves save_catalog, before the step at pc_s
Save_Crash ==
    /\ pc_s \in {"open", "dump", "replace"} /\ ~crashed
    /\ crashed' = TRUE
    /\ UNCHANGED <<fs, pc_s, doc_new, doc_old, n_saves>>

(***************************************************************************)
(* radar_movies_import.py: matching Radarr movies to torrents              *)
(*                                                                         *)
(* Paths are handled as on a POSIX system, where a backslash is a          *)
(* character of a name; they have no "." or ".." component.                *)
(***************************************************************************)
\* longest torrent listing the client returns to the export
MaxListed == 2
\* most movies Radarr returns to the export
MaxMovies == 2

\* repeated slashes become one
RECURSIVE CollapseSlashes(_)
CollapseSlashes(p) ==
    IF Len(p) < 2 THEN p
    ELSE IF p[1] = "/" /\ p[2] = "/" THEN CollapseSlashes(Tail(p))
    ELSE <<p[1]>> \o CollapseSlashes(Tail(p))

\* str(Path(p)) for a non-empty text: runs of slashes become one slash, a
\* trailing slash is dropped, exactly two leading slashes are kept
PosixStr(p) ==
    LET q == CollapseSlashes(p)
        r == IF Len(q) > 1 /\ q[Len(q)] = "/" THEN SubSeq(q, 1, Len(q) - 1) ELSE q
    IN  IF Len(p) >= 2 /\ p[1] = "/" /\ p[2] = "/" /\ (Len(p) = 2 \/ p[3] # "/")
        THEN <<"/">> \o r
        ELSE r

\* normalize_path
normalize_path(p) == IF ~Truthy(p) THEN None ELSE PosixStr(p)

\* parent_folder_of_path
parent_folder_of_path(p) == IF ~Truthy(p) THEN None ELSE PathParent(p)

\* the text after the last slash: Path(p).name of a normalized path, and
\* s.split("/")[-1]
LastSegment(s) ==
    LET sl == {i \in 1..Len(s) : s[i] = "/"}
    IN  IF sl = {} THEN s
        ELSE SubSeq(s, (CHOOSE i \in sl : \A j \in sl : i >= j) + 1, Len(s))

\* find_mkv_in_moviefile: the name of the file when the path ends in .mkv
find_mkv_in_moviefile(moviefile_path) ==
    IF ~Truthy(moviefile_path) THEN <<>>
    ELSE IF EndsWith(Lower(PosixStr(moviefile_path)), Ext_mkv)
    THEN <<LastSegment(PosixStr(moviefile_path))>>
    ELSE <<>>

\* sub in s
Contains(s, sub) == \E i \in 0..(Len(s) - Len(sub)) : SubSeq(s, i + 1, i + Len(sub)) = sub

\* a torrent as the client lists it, with what /torrents/files answers for
\* it: files, or an error
MTorrent(h, name, sp, spAlt, files, files_ok) ==
    [hash |-> h, name |-> name, save_path |-> sp, savePath |-> spAlt,
     files |-> files, files_ok |-> files_ok]

F_fmkv == <<"f", ".", "m", "k", "v">>
F_Fmkv == <<"x", "F", ".", "M", "k", "v">>
F_sfmkv == <<"s", "/", "F", ".", "m", "k", "v">>
P_dgmp4 == <<"/", "d", "/", "g", ".", "m", "p", "4">>
P_bsd == <<"\\", "d">>
P_sssdss == <<"/", "/", "/", "d", "/", "/">>

MTorrentPool ==
    { MTorrent(<<"a", "b">>, F_Fmkv, P_sssdss, Absent, <<>>, TRUE),
      MTorrent(<<"c", "d">>, <<"z">>, P_e, Absent, <<F_sfmkv>>, TRUE),
      MTorrent(<<>>, F_fmkv, P_d, Absent, <<>>, TRUE),
      MTorrent(<<"e", "f">>, F_fmkv, P_bsd, Absent, <<>>, TRUE),
      MTorrent(<<"g", "h">>, None, Absent, P_d, <<F_fmkv>>, FALSE),
      MTorrent(<<"i", "j">>, <<"q">>, P_d, Absent, <<F_sfmkv>>, TRUE) }

MTorrentListings == {q \in SeqsUpTo(MTorrentPool, MaxListed) : NoRepeat(q)}

\* a movie as Radarr returns it: has_file is whether movieFile is set
Movie(id, has_file, path, relativePath) ==
    [id |-> id, has_file |-> has_file, path |-> path, relativePath |-> relativePath]

MoviePool ==
    { Movie(N_1, TRUE, P_dfmkv, Absent),
      Movie(N_2, FALSE, Absent, Absent),
      Movie(<<"3">>, TRUE, P_dgmp4, Absent),
      Movie(<<"4">>, TRUE, None, F_fmkv) }

MovieListings == {q \in SeqsUpTo(MoviePool, MaxMovies) : NoRepeat(q)}

\* the save path of a torrent, normalized: the key of torrents_by_savepath
SavePathKey(t) == normalize_path(Or2(t.save_path, Or2(t.savePath, <<>>)))

\* 1) the torrents indexed under the folder, in listing order
MatchBySavePath(folder, torrents) ==
    IF ~Truthy(folder) THEN <<>>
    ELSE LET hit == SelectSeq(torrents, LAMBDA t : SavePathKey(t) = folder)
         IN  [i \in 1..Len(hit) |-> [torrent |-> hit[i], reason |-> "save_path"]]

\* the file list of the torrent has a file of that name
InFilesList(fname, t) ==
    t.files_ok /\ \E i \in 1..Len(t.files) : fname = LastSegment(Lower(Or2(t.files[i], <<>>)))

\* a scan that a failed file-list query ends
RECURSIVE MatchByFilename_AbortsOnFailure(_, _)
MatchByFilename_AbortsOnFailure(fname, torrents) ==
    IF torrents = <<>> THEN <<>>
    ELSE LET t == Head(torrents)
             rest == MatchByFilename_AbortsOnFailure(fname, Tail(torrents))
         IN  IF Contains(Lower(Or2(t.name, <<>>)), fname)
             THEN <<[torrent |-> t, reason |-> "name_contains_filename"]>> \o rest
             ELSE IF ~t.files_ok THEN <<>>
             ELSE IF InFilesList(fname, t)
             THEN <<[torrent |-> t, reason |-> "files_list"]>> \o rest
             ELSE rest

\* 2) the torrents matched by the file name: in the name, else in the file list
RECURSIVE MatchByFilename(_, _)
MatchByFilename(fname, torrents) ==
    IF torrents = <<>> THEN <<>>
    ELSE LET t == Head(torrents)
             rest == MatchByFilename(fname, Tail(torrents))
         IN  IF Contains(Lower(Or2(t.name, <<>>)), fname)
             THEN <<[torrent |-> t, reason |-> "name_contains_filename"]>> \o rest
             ELSE IF InFilesList(fname, t)
             THEN <<[torrent |-> t, reason |-> "files_list"]>> \o rest
             ELSE rest

\* the name scan made before the save-path lookup
Matched_NameFirst(folder, mkv_files, torrents) ==
    (IF mkv_files # <<>> THEN MatchByFilename(Lower(mkv_files[1]), torrents) ELSE <<>>)
    \o MatchBySavePath(folder, torrents)

\* the list matched, before deduplication
Matched(folder, mkv_files, torrents) ==
    MatchBySavePath(folder, torrents)
    \o (IF mkv_files # <<>> THEN MatchByFilename(Lower(mkv_files[1]), torrents) ELSE <<>>)

\* the row of matched_torrents for one match
MatchedRow(mobj) ==
    [hash |-> Upper(Or2(mobj.torrent.hash, <<>>)), name |-> mobj.torrent.name,
     save_path |-> SavePathKey(mobj.torrent), matched_by |-> mobj.reason]

\* a pass that keeps every match that has a hash
RECURSIVE Dedupe_KeepsAll(_, _)
Dedupe_KeepsAll(matched, seen) ==
    IF matched = <<>> THEN <<>>
    ELSE LET h == Upper(Or2(Head(matched).torrent.hash, <<>>))
         IN  IF h = <<>> THEN Dedupe_KeepsAll(Tail(matched), seen)
             ELSE <<MatchedRow(Head(matched))>> \o Dedupe_KeepsAll(Tail(matched), seen \cup {h})

\* 3) deduplicate matched by hash: the first match of a hash is kept
RECURSIVE Dedupe(_, _)
Dedupe(matched, seen) ==
    IF matched = <<>> THEN <<>>
    ELSE LET h == Upper(Or2(Head(matched).torrent.hash, <<>>))
         IN  IF h = <<>> \/ h \in seen THEN Dedupe(Tail(matched), seen)
             ELSE <<MatchedRow(Head(matched))>> \o Dedupe(Tail(matched), seen \cup {h})

\* the torrents the file list is asked for in 2): those whose name does not
\* contain the file name, in listing order
FileQueries(fname, torrents) ==
    SelectSeq([i \in 1..Len(torrents) |-> i],
              LAMBDA i : ~Contains(Lower(Or2(torrents[i].name, <<>>)), fname))

\* the file-list queries made for movie n
MovieQueries(n, m, torrents) ==
    LET mp == IF m.has_file THEN normalize_path(Get(Or2(m.path, m.relativePath))) ELSE None
        mkv_files == IF Truthy(mp) THEN find_mkv_in_moviefile(mp) ELSE <<>>
        asked == IF mkv_files # <<>> THEN FileQueries(Lower(mkv_files[1]), torrents) ELSE <<>>
    IN  [k \in 1..Len(asked) |->
            [movie |-> n, torrent |-> asked[k], ok |-> torrents[asked[k]].files_ok]]

\* the body of the loop over the movies: the output entry of one movie
MovieEntry(m, torrents) ==
    LET mp == IF m.has_file THEN normalize_path(Get(Or2(m.path, m.relativePath))) ELSE None
        folder == IF Truthy(mp) THEN parent_folder_of_path(mp) ELSE None
        mkv_files == IF Truthy(mp) THEN find_mkv_in_moviefile(mp) ELSE <<>>
    IN  [radarr_id |-> m.id, moviefile_path |-> mp, folder |-> folder, mkv_files |-> mkv_files,
         matched_torrents |-> Dedupe(Matched(folder, mkv_files, torrents), {})]

VARIABLES
    m_pc,           \* where the export is: "main", "movies", "exited"
    m_movies,       \* the movies fetched from Radarr
    m_torrents,     \* the torrents fetched from the client
    m_output,       \* the entries built so far, one per movie handled
    m_written,      \* whether the output file was written
    m_queries,      \* the file-list queries made: the movie, the torrent, the outcome
    m_rc            \* the exit status of the export, -1 while it runs

vars_match == <<m_pc, m_movies, m_torrents, m_output, m_written, m_queries, m_rc>>

\* the export has been started
MatchIdle ==
    /\ m_pc = "main"
    /\ m_movies = <<>>
    /\ m_torrents = <<>>
    /\ m_output = <<>>
    /\ m_written = FALSE
    /\ m_queries = <<>>
    /\ m_rc = Running

FetchOutcomes == {"no_apikey", "radarr_fails", "login_fails", "torrents_fail", "ok"}

\* the API key test, the movies, the login, the torrents: a failure returns 2, 3, 4 or 5
Match_Fetch(o, movies, torrents) ==
    /\ m_pc = "main"
    /\ m_movies' = IF o \in {"no_apikey", "radarr_fails"} THEN <<>> ELSE movies
    /\ m_torrents' = IF o = "ok" THEN torrents ELSE <<>>
    /\ m_pc' = IF o = "ok" THEN "movies" ELSE "exited"
    /\ m_rc' = CASE o = "no_apikey" -> 2
                 [] o = "radarr_fails" -> 3
                 [] o = "login_fails" -> 4
                 [] o = "torrents_fail" -> 5
                 [] o = "ok" -> m_rc
    /\ UNCHANGED <<m_output, m_written, m_queries>>

\* one iteration of the loop over the movies
Match_Movie ==
    /\ m_pc = "movies"
    /\ Len(m_output) < Len(m_movies)
    /\ m_output' = Append(m_output, MovieEntry(m_movies[Len(m_output) + 1], m_torrents))
    /\ m_queries' = m_queries \o MovieQueries(Len(m_output) + 1, m_movies[Len(m_output) + 1], m_torrents)
    /\ UNCHANGED <<m_pc, m_movies, m_torrents, m_written, m_rc>>

\* write the output JSON: a failure returns 6
Match_Write(ok) ==
    /\ m_pc = "movies"
    /\ Len(m_output) = Len(m_movies)
    /\ m_written' = ok
    /\ m_rc' = IF ok THEN 0 ELSE 6
    /\ m_pc' = "exited"
    /\ UNCHANGED <<m_movies, m_torrents, m_output, m_queries>>

\* the export is run again
Match_NewProcess ==
    /\ m_pc = "exited"
    /\ m_pc' = "main"
    /\ m_movies' = <<>>
    /\ m_torrents' = <<>>
    /\ m_output' = <<>>
    /\ m_written' = FALSE
    /\ m_queries' = <<>>
    /\ m_rc' = Running

(***************************************************************************)
(* radarr_history_export.py: request_with_retry and fetch_all_history      *)
(*                                                                         *)
(* A call of fetch_all_history asks for page 1, 2, ... of the history;     *)
(* each page is fetched by one call of request_with_retry. The server      *)
(* answers every request as it likes. Pages are numbered exactly up to     *)
(* PageCap: every later page counts as page PageCap + 1, and the pages     *)
(* fetched from there on are not logged. Times are in 1/32 s.              *)
(***************************************************************************)
\* the retry budget of request_with_retry
MAX_RETRIES == 5

\* the page_size the history is fetched with (PAGE_SIZE is 200 in the script)
PageSize == 2

\* the pages numbered exactly
PageCap == 3

\* what one request can be answered with: HTTP 200, 429, another 4xx, any
\* other status, or no answer at all (requests.RequestException)
Failures == {"429", "4xx", "5xx", "neterr"}

\* (BACKOFF_FACTOR ** attempt) * base, BACKOFF_FACTOR = 1.5, base in 1/32 s
Backoff(base32, attempt) == (base32 * 3^attempt) \div 2^attempt

\* the sleep after an answer that is not 200. raise_for_status raises
\* requests.HTTPError, a RequestException: the except clause of the loop
\* catches it, as it catches a network error
RetryWait(status, attempt) ==
    CASE status = "429" -> Backoff(64, attempt)
      [] status = "4xx" -> Backoff(32, attempt)
      [] status = "neterr" -> Backoff(32, attempt)
      [] OTHER -> Backoff(48, attempt)

\* a loop that makes one attempt fewer
MayAttempt_OneShort(n) == n < MAX_RETRIES - 1

\* while attempt < MAX_RETRIES
MayAttempt(n) == n < MAX_RETRIES

\* a loop that does not count the attempts that got no answer
NextAttempt_NetErrFree(n, status) == IF status = "neterr" THEN n ELSE n + 1

\* attempt += 1, after every answer that is not 200
NextAttempt(n, status) == n + 1

\* the events the server puts on a page
Body(p, n) == [k \in 1..n |-> [page |-> p, idx |-> k]]

\* the JSON documents a 200 answer can carry for page p: a list, an object
\* with a list under a known key, an object with none, anything else
Datas(p) ==
    {[kind |-> k, items |-> Body(p, n)] : k \in {"list", "records"}, n \in 0..(PageSize + 1)}
    \cup {[kind |-> "dict_nolist", items |-> <<>>], [kind |-> "other", items |-> <<>>]}

NoData == [kind |-> "none", items |-> <<>>]

\* a loop that stops at an empty page only
IsLastPage_EmptyOnly(page_items, page_size) == FALSE

\* len(page_items) < page_size
IsLastPage(page_items, page_size) == Len(page_items) < page_size

VARIABLES
    h_pc,           \* "idle", "retry" (in request_with_retry), "page" (it returned), "returned", "raised"
    page,           \* the page asked for
    attempt,        \* attempt of the running request_with_retry
    h_statuses,     \* the answers to the requests of the running request_with_retry
    h_waits,        \* the sleeps of the running request_with_retry
    data,           \* what request_with_retry returned last
    all_items,      \* all_items of fetch_all_history
    h_fetched,      \* the pages fetched with their items, in the order fetched
    h_error         \* the error raised: "none", "exhausted", "non_json", "format"

vars_history == <<h_pc, page, attempt, h_statuses, h_waits, data, all_items, h_fetched, h_error>>

\* no fetch has been called
HistoryIdle ==
    /\ h_pc = "idle"
    /\ page = 1
    /\ attempt = 0
    /\ h_statuses = <<>>
    /\ h_waits = <<>>
    /\ data = NoData
    /\ all_items = <<>>
    /\ h_fetched = <<>>
    /\ h_error = "none"

\* the pages beyond PageCap are being fetched
Over == page > PageCap

\* fetch_all_history is called: page 1 is asked for
Fetch_Call ==
    /\ h_pc \in {"idle", "returned", "raised"}
    /\ h_pc' = "retry"
    /\ page' = 1
    /\ attempt' = 0
    /\ h_statuses' = <<>>
    /\ h_waits' = <<>>
    /\ data' = NoData
    /\ all_items' = <<>>
    /\ h_fetched' = <<>>
    /\ h_error' = "none"

\* one pass of the loop of request_with_retry whose answer is not 200: the
\* sleep, then attempt += 1
Retry_Failure(status) ==
    /\ h_pc = "retry"
    /\ MayAttempt(attempt)
    /\ h_statuses' = Append(h_statuses, status)
    /\ h_waits' = Append(h_waits, RetryWait(status, attempt))
    /\ attempt' = NextAttempt(attempt, status)
    /\ UNCHANGED <<h_pc, page, data, all_items, h_fetched, h_error>>

\* one pass whose answer is 200: the JSON document is returned, or
\* RuntimeError when the body is not JSON
Retry_Answer(json, d) ==
    /\ h_pc = "retry"
    /\ MayAttempt(attempt)
    /\ h_statuses' = Append(h_statuses, "200")
    /\ h_pc' = IF json THEN "page" ELSE "raised"
    /\ h_error' = IF json THEN h_error ELSE "non_json"
    /\ data' = IF json THEN d ELSE data
    /\ UNCHANGED <<page, attempt, h_waits, all_items, h_fetched>>

\* the loop of request_with_retry ends: RuntimeError
Retry_Exhausted ==
    /\ h_pc = "retry"
    /\ ~MayAttempt(attempt)
    /\ h_pc' = "raised"
    /\ h_error' = "exhausted"
    /\ UNCHANGED <<page, attempt, h_statuses, h_waits, data, all_items, h_fetched>>

\* the rest of the loop body of fetch_all_history, up to the next call of
\* request_with_retry or the return
Fetch_Page ==
    /\ h_pc = "page"
    /\ IF data.kind \notin {"list", "records"}
       THEN /\ h_pc' = "raised"
            /\ h_error' = "format"
            /\ UNCHANGED <<page, attempt, h_statuses, h_waits, all_items, h_fetched>>
       ELSE LET page_items == data.items
            IN  /\ h_fetched' = IF Over THEN h_fetched
                                ELSE Append(h_fetched, [page |-> page, items |-> page_items])
                /\ all_items' = IF Over THEN all_items ELSE all_items \o page_items
                /\ h_error' = h_error
                /\ IF page_items = <<>> \/ IsLastPage(page_items, PageSize)
                   THEN /\ h_pc' = "returned"
                        /\ UNCHANGED <<page, attempt, h_statuses, h_waits>>
                   ELSE /\ h_pc' = "retry"
                        /\ page' = IF Over THEN page ELSE page + 1
                        /\ attempt' = 0
                        /\ h_statuses' = <<>>
                        /\ h_waits' = <<>>
    /\ data' = data

(***************************************************************************)
(* build_catalog.py: sonarr_history_pages and radarr_history_pages         *)
(*                                                                         *)
(* The two generators differ in the URL and the key only. The loop of      *)
(* build_catalog takes every batch a generator yields, so a call runs to   *)
(* its end unless json_get raises. json_get and HIST_PAGE_SIZE come from   *)
(* the cleaner package: json_get is the server's answer, whatever it is.   *)
(***************************************************************************)
\* HIST_PAGE_SIZE, the page size of the history requests
HistPageSize == 2

\* the largest --pages-sonarr / --pages-radarr of a run
MaxPagesArg == 3

\* no totalRecords in the payload
NoTotal == -1

\* the payloads json_get can return: an object with records (a list of n
\* records, or null) and a totalRecords or none, or a bare list
Payloads ==
    {[kind |-> "records", n |-> n, total |-> t] :
        n \in 0..HistPageSize, t \in {NoTotal} \cup 0..(HistPageSize * MaxPagesArg)}
    \cup {[kind |-> "list", n |-> n, total |-> NoTotal] : n \in 1..HistPageSize}

\* max(1, pages_sonarr), max(1, pages_radarr)
AtLeastOne(n) == IF n < 1 THEN 1 ELSE n

\* a generator that never looks at totalRecords
TotalReached_Ignored(pg, total) == FALSE

\* total is not None and page * HIST_PAGE_SIZE >= total
TotalReached(pg, total) == total # NoTotal /\ pg * HistPageSize >= total

VARIABLES
    g_pc,           \* "idle", "loop", "done", "raised"
    g_source,       \* "sonarr" or "radarr"
    g_page,         \* page
    g_max_pages,    \* max_pages
    g_requests,     \* the requests made: the page asked for and the payload returned
    g_yielded       \* the sizes of the batches yielded

vars_pages == <<g_pc, g_source, g_page, g_max_pages, g_requests, g_yielded>>

\* no generator has been called
PagesIdle ==
    /\ g_pc = "idle"
    /\ g_source = "sonarr"
    /\ g_page = 1
    /\ g_max_pages = 1
    /\ g_requests = <<>>
    /\ g_yielded = <<>>

\* for recs in sonarr_history_pages(max(1, pages_sonarr)), and the same for
\* Radarr
Pages_Call(source, pages_arg) ==
    /\ g_pc \in {"idle", "done", "raised"}
    /\ g_pc' = "loop"
    /\ g_source' = source
    /\ g_page' = 1
    /\ g_max_pages' = AtLeastOne(pages_arg)
    /\ g_requests' = <<>>
    /\ g_yielded' = <<>>

\* one pass of the loop: the request, the batch yielded, the tests
Pages_Request(payload) ==
    /\ g_pc = "loop"
    /\ g_page <= g_max_pages
    /\ g_requests' = Append(g_requests, [page |-> g_page, payload |-> payload])
    /\ IF payload.kind = "list"
       THEN \* payload.get on a list: AttributeError
            g_pc' = "raised" /\ UNCHANGED <<g_page, g_yielded>>
       ELSE IF payload.n = 0
       THEN g_pc' = "done" /\ UNCHANGED <<g_page, g_yielded>>
       ELSE /\ g_yielded' = Append(g_yielded, payload.n)
            /\ IF TotalReached(g_page, payload.total)
               THEN g_pc' = "done" /\ g_page' = g_page
               ELSE g_pc' = "loop" /\ g_page' = g_page + 1
    /\ UNCHANGED <<g_source, g_max_pages>>

\* json_get raises: the generator, and the build, end with the error
Pages_RequestFails ==
    /\ g_pc = "loop"
    /\ g_page <= g_max_pages
    /\ g_requests' = Append(g_requests, [page |-> g_page, payload |-> [kind |-> "error", n |-> 0, total |-> NoTotal]])
    /\ g_pc' = "raised"
    /\ UNCHANGED <<g_source, g_page, g_max_pages, g_yielded>>

\* page > max_pages: the loop ends
Pages_End ==
    /\ g_pc = "loop"
    /\ g_page > g_max_pages
    /\ g_pc' = "done"
    /\ UNCHANGED <<g_source, g_page, g_max_pages, g_requests, g_yielded>>

(***************************************************************************)
(* build_catalog.py: a run of build_catalog, from the login to the save    *)
(*                                                                         *)
(* The file at CATALOG_PATH is absent, holds a text json.load rejects, or  *)
(* holds a JSON document. The document of a catalog has the two namespaces *)
(* and meta; meta is the pages scanned (built_at is the clock's). A page   *)
(* of history is the list of records a generator yields; a fetch that      *)
(* fails is json_get raising.                                              *)
(***************************************************************************)
\* the largest --pages-sonarr / --pages-radarr of a modelled run
MaxBuildPages == 2

\* most runs of build_catalog one after the other
MaxRuns == 2

FileAbsent == [kind |-> "absent", doc |-> [meta |-> <<>>]]

FileGarbage == [kind |-> "garbage", doc |-> [meta |-> <<>>]]

JsonFile(doc) == [kind |-> "json", doc |-> doc]

\* a JSON document that is an object without the namespaces: {"meta": {}}
MetaOnlyDoc == [meta |-> <<>>]

\* {"sonarr": {}, "radarr": {}, "meta": {}}
EmptyLoaded == [sonarr |-> NoSeries, radarr |-> NoEntries, meta |-> <<>>]

\* a loader that answers an empty dictionary for what it cannot read
load_catalog_EmptyDict(file) == IF file.kind = "json" THEN file.doc ELSE MetaOnlyDoc

\* load_catalog: the document of the file, the empty catalog when open or json.load raises
load_catalog(file) == IF file.kind = "json" THEN file.doc ELSE EmptyLoaded

\* the history pages a server can answer, per source
BuildPages(source) ==
    IF source = "sonarr"
    THEN { <<SItem(W_grabbed, <<"a">>, IsoDate(1, 0), N_1, T_T, N_1, Absent, T_T, N_1, N_1)>>,
           <<SItem(W_episodeFileDeleted, <<"b">>, IsoDate(3, 0), N_1, T_T, N_1, Absent, T_T, N_1, N_1)>> }
    ELSE { <<RItem(W_grabbed, <<"a">>, IsoDate(1, 0), N_1, Absent, T_T, N_2020)>>,
           <<RItem(W_grabbed, <<"b">>, IsoDate(2, 0), N_1, Absent, T_T, N_2020),
             RItem(W_downloadFolderImported, <<"c">>, IsoDate(3, 2), N_1, N_1, T_U, N_2021)>> }

\* the call a loop makes for a record of its source
BuildCall(source, it, only, hashes) ==
    IF source = "sonarr" THEN SonarrCall(it, only, hashes) ELSE RadarrCall(it, only, hashes)

\* the records of a page merged one after the other: catalog["sonarr"] or
\* catalog["radarr"] raises KeyError when the document loaded has no such key
RECURSIVE MergeRecs(_, _, _, _, _, _)
MergeRecs(cat, source, recs, only, hashes, n) ==
    IF n = 0 THEN [ok |-> TRUE, cat |-> cat]
    ELSE LET r == MergeRecs(cat, source, recs, only, hashes, n - 1)
             c == BuildCall(source, recs[n], only, hashes)
         IN  IF ~r.ok \/ c.ns = "skip" THEN r
             ELSE IF c.ns \notin DOMAIN r.cat THEN [ok |-> FALSE, cat |-> r.cat]
             ELSE [ok |-> TRUE, cat |-> ApplyCall(r.cat, c)]

\* max(1, pages_sonarr), max(1, pages_radarr)
PagesAsked(a, source) ==
    AtLeastOne(IF source = "sonarr" THEN a.pages_sonarr ELSE a.pages_radarr)

\* catalog["meta"] after step 5
MetaOf(a) == <<a.pages_sonarr, a.pages_radarr>>

\* a build that saves what it has merged when a history fetch fails
PhaseAfter_SaveOnFailure(phase, ok) ==
    IF ~ok THEN (IF phase \in {"sonarr", "radarr"} THEN "save" ELSE "raised")
    ELSE CASE phase = "login" -> "list"
           [] phase = "list" -> "load"
           [] phase = "load" -> "sonarr"
           [] phase = "sonarr" -> "radarr"
           [] phase = "radarr" -> "save"
           [] OTHER -> "done"

\* the order of the steps of build_catalog; an exception of a step ends the run
PhaseAfter(phase, ok) ==
    IF ~ok THEN "raised"
    ELSE CASE phase = "login" -> "list"
           [] phase = "list" -> "load"
           [] phase = "load" -> "sonarr"
           [] phase = "sonarr" -> "radarr"
           [] phase = "radarr" -> "save"
           [] OTHER -> "done"

VARIABLES
    b_pc,           \* where build_catalog is; "idle": no run
    b_args,         \* pages_sonarr, pages_radarr, qb_only, and which sources are configured
    b_catalog,      \* catalog, the dictionary in memory
    b_page,         \* the page the current generator asks for next
    b_file,         \* the file at CATALOG_PATH
    b_file0,        \* history: the file when the run started
    b_trace,        \* history: what the run did, in order
    b_error,        \* history: the step whose exception ended the run
    b_runs          \* history: runs started

vars_build == <<b_pc, b_args, b_catalog, b_page, b_file, b_file0, b_trace, b_error, b_runs>>

\* the command lines and configurations of the modelled runs: a source is
\* configured when its URL and its key are set
BuildArgs ==
    { [pages_sonarr |-> ps, pages_radarr |-> MaxBuildPages, qb_only |-> only,
       sonarr |-> conf[1], radarr |-> conf[2]] :
         ps \in {0, MaxBuildPages}, only \in BOOLEAN,
         conf \in {<<TRUE, TRUE>>, <<FALSE, TRUE>>, <<TRUE, FALSE>>} }

NoBuildArgs ==
    [pages_sonarr |-> 0, pages_radarr |-> 0, qb_only |-> FALSE, sonarr |-> FALSE, radarr |-> FALSE]

\* no run yet; the file is absent, unreadable, or a document without namespaces
RunIdle ==
    /\ b_pc = "idle"
    /\ b_args = NoBuildArgs
    /\ b_catalog = EmptyLoaded
    /\ b_page = 1
    /\ b_file \in {FileAbsent, FileGarbage, JsonFile(MetaOnlyDoc)}
    /\ b_file0 = b_file
    /\ b_trace = <<>>
    /\ b_error = "none"
    /\ b_runs = 0

\* main: build_catalog(args.pages_sonarr, args.pages_radarr, args.qb_only)
Build_Call(a) ==
    /\ b_pc = "idle"
    /\ b_runs < MaxRuns
    /\ b_pc' = "login"
    /\ b_args' = a
    /\ b_catalog' = EmptyLoaded
    /\ b_page' = 1
    /\ b_file0' = b_file
    /\ b_trace' = <<>>
    /\ b_error' = "none"
    /\ b_runs' = b_runs + 1
    /\ UNCHANGED b_file

\* one step that only succeeds or raises
StepOutcome(phase, ok) ==
    /\ b_pc' = PhaseAfter(phase, ok)
    /\ b_trace' = Append(b_trace, [ev |-> phase, ok |-> ok])
    /\ b_error' = IF ok THEN b_error ELSE phase

\* qb_login
Build_Login(ok) ==
    /\ b_pc = "login"
    /\ StepOutcome("login", ok)
    /\ UNCHANGED <<b_args, b_catalog, b_page, b_file, b_file0, b_runs>>

\* qb_all_torrents
Build_List(ok) ==
    /\ b_pc = "list"
    /\ StepOutcome("list", ok)
    /\ UNCHANGED <<b_args, b_catalog, b_page, b_file, b_file0, b_runs>>

\* catalog = load_catalog(CATALOG_PATH)
Build_Load ==
    /\ b_pc = "load"
    /\ b_catalog' = load_catalog(b_file)
    /\ StepOutcome("load", TRUE)
    /\ UNCHANGED <<b_args, b_page, b_file, b_file0, b_runs>>

\* the source of the current loop is configured and its generator has a page to ask for
Asking == b_pc \in {"sonarr", "radarr"} /\ b_args[b_pc] /\ b_page <= PagesAsked(b_args, b_pc)

\* the generator's request fails: json_get raises
Build_FetchFails ==
    /\ Asking
    /\ b_pc' = PhaseAfter(b_pc, FALSE)
    /\ b_trace' = Append(b_trace, [ev |-> "fetch", ok |-> FALSE])
    /\ b_error' = "fetch"
    /\ UNCHANGED <<b_args, b_catalog, b_page, b_file, b_file0, b_runs>>

\* the generator yields a page and the loop merges its records; more: whether
\* the generator goes on to the next page
Build_Page(recs, more) ==
    /\ Asking
    /\ LET r == MergeRecs(b_catalog, b_pc, recs, b_args.qb_only, QbHashes(QbTorrents), Len(recs))
       IN  /\ b_catalog' = r.cat
           /\ b_trace' = Append(b_trace, [ev |-> b_pc, ok |-> r.ok])
           /\ b_error' = IF r.ok THEN b_error ELSE "merge"
           /\ b_pc' = IF ~r.ok THEN "raised" ELSE IF more THEN b_pc ELSE PhaseAfter(b_pc, TRUE)
           /\ b_page' = IF r.ok /\ more THEN b_page + 1 ELSE 1
    /\ UNCHANGED <<b_args, b_file, b_file0, b_runs>>

\* the generator ends without a page (no records, or max_pages passed), or
\* the source is not configured
Build_PagesEnd ==
    /\ b_pc \in {"sonarr", "radarr"}
    /\ b_pc' = PhaseAfter(b_pc, TRUE)
    /\ b_page' = 1
    /\ b_trace' = Append(b_trace, [ev |-> "end", ok |-> TRUE])
    /\ UNCHANGED <<b_args, b_catalog, b_file, b_file0, b_error, b_runs>>

\* step 5: meta, then save_catalog; a save that raises has not replaced the file
Build_Save(ok) ==
    /\ b_pc = "save"
    /\ b_catalog' = [x \in DOMAIN b_catalog \cup {"meta"} |->
                        IF x = "meta" THEN MetaOf(b_args) ELSE b_catalog[x]]
    /\ b_file' = IF ok THEN JsonFile(b_catalog') ELSE b_file
    /\ b_pc' = PhaseAfter("save", ok)
    /\ b_trace' = Append(b_trace, [ev |-> "write", ok |-> ok])
    /\ b_error' = IF ok THEN b_error ELSE "save"
    /\ UNCHANGED <<b_args, b_page, b_file0, b_runs>>

\* the process ends
Build_Exit ==
    /\ b_pc \in {"done", "raised"}
    /\ b_pc' = "idle"
    /\ UNCHANGED <<b_args, b_catalog, b_page, b_file, b_file0, b_trace, b_error, b_runs>>

(***************************************************************************)
(* radarr_history_export.py: the fields of a history event                 *)
(*                                                                         *)
(* An event is a dictionary (top) that may hold an object under "raw",     *)
(* which may hold an object under "data"; an object is a dictionary or     *)
(* something else. date is the instant of the event, 0 (datetime_min, the  *)
(* epoch) when it has none that parses. A record id is a text of one token.*)
(***************************************************************************)
\* most events of one movie
MaxEvents == 2

Dict(d) == [kind |-> "dict", d |-> d]

NotDict == [kind |-> "other", d |-> <<>>]

NoKeys == [k \in {} |-> None]

\* d.get(k)
DGet(d, k) == IF k \in DOMAIN d THEN d[k] ELSE None

HEvent(date, top, raw, raw_data) ==
    [date |-> date, top |-> top, raw |-> raw, data |-> raw_data]

HEventPool ==
    { HEvent(2, [downloadId |-> <<"e">>, id |-> <<"7">>],
             Dict([downloadId |-> <<"r">>]), Dict([downloadId |-> <<"d">>])),
      HEvent(1, [downloadId |-> <<"h">>, id |-> <<"8">>], NotDict, NotDict),
      HEvent(3, [id |-> <<"9">>], NotDict, NotDict),
      HEvent(0, [downloadId |-> None, id |-> <<"6">>],
             Dict([torrentInfoHash |-> <<"t">>, id |-> <<"5">>]), NotDict),
      HEvent(2, [downloadId |-> <<>>], NotDict, Dict([downloadId |-> <<"d">>])),
      HEvent(1, NoKeys, Dict([downloadId |-> None]), Dict([downloadId |-> None, id |-> None])) }

\* the key lists get_from_event is called with
KeyLists ==
    { <<"downloadId">>,
      <<"downloadId", "torrentInfoHash", "torrentHash", "id">>,
      <<"torrentInfoHash", "downloadId">> }

\* safe_raw: raw and raw.data, an empty dictionary for what is not a dictionary
safe_raw(ev) ==
    LET raw == IF ev.raw.kind = "dict" THEN ev.raw.d ELSE NoKeys
        raw_data == IF ev.raw.kind = "dict" /\ ev.data.kind = "dict" THEN ev.data.d ELSE NoKeys
    IN  [raw |-> raw, data |-> raw_data]

\* a probe that looks at the event first, then raw, then raw.data
ProbeKey_EventFirst(ev, k) ==
    LET sr == safe_raw(ev)
    IN  IF DGet(ev.top, k) # None THEN DGet(ev.top, k)
        ELSE IF DGet(sr.raw, k) # None THEN DGet(sr.raw, k)
        ELSE DGet(sr.data, k)

\* one turn of the loop of get_from_event: data, then raw, then the event
ProbeKey(ev, k) ==
    LET sr == safe_raw(ev)
    IN  IF DGet(sr.data, k) # None THEN DGet(sr.data, k)
        ELSE IF DGet(sr.raw, k) # None THEN DGet(sr.raw, k)
        ELSE DGet(ev.top, k)

\* get_from_event(ev, *keys), from the key at position i on
RECURSIVE get_from(_, _, _)
get_from(ev, keys, i) ==
    IF i > Len(keys) THEN None
    ELSE IF ProbeKey(ev, keys[i]) # None THEN ProbeKey(ev, keys[i])
    ELSE get_from(ev, keys, i + 1)

get_from_event(ev, keys) == get_from(ev, keys, 1)

\* event_date
event_date(ev) == ev.date

\* sorted(events, key=event_date) after e was added to the sorted s: the sort is stable
InsertByDate(sorted, e) ==
    LET k == Cardinality({i \in 1..Len(sorted) : event_date(sorted[i]) <= event_date(e)})
    IN  SubSeq(sorted, 1, k) \o <<e>> \o SubSeq(sorted, k + 1, Len(sorted))

RECURSIVE SortedByDate(_, _)
SortedByDate(events, n) ==
    IF n = 0 THEN <<>> ELSE InsertByDate(SortedByDate(events, n - 1), events[n])

\* Python truthiness of a value of an event
TruthyVal(v) == v # None /\ v # <<>> /\ v # <<"0">>

\* h of line 162
HashOfEvent(ev) ==
    IF TruthyVal(DGet(ev.top, "downloadId")) THEN DGet(ev.top, "downloadId")
    ELSE get_from_event(ev, <<"downloadId", "torrentInfoHash", "torrentHash", "id">>)

\* find_last_hash: the loop over reversed(sorted_ev), from position i down
RECURSIVE LastHashFrom(_, _)
LastHashFrom(sorted_ev, i) ==
    IF i = 0 THEN None
    ELSE IF TruthyVal(HashOfEvent(sorted_ev[i])) THEN HashOfEvent(sorted_ev[i])
    ELSE LastHashFrom(sorted_ev, i - 1)

find_last_hash(events) == LastHashFrom(SortedByDate(events, Len(events)), Len(events))

VARIABLES
    x_pc,           \* "idle", "events" (a movie's events are at hand), "probed", "hashed"
    x_events,       \* the events of the movie
    x_keys,         \* the keys of the last get_from_event calls
    x_got,          \* what get_from_event returned, per event
    x_last          \* what find_last_hash returned

vars_export == <<x_pc, x_events, x_keys, x_got, x_last>>

ExportIdle ==
    /\ x_pc = "idle"
    /\ x_events = <<>>
    /\ x_keys = <<>>
    /\ x_got = <<>>
    /\ x_last = None

\* the events grouped under one movie
Export_Events(events) ==
    /\ x_pc = "idle"
    /\ x_pc' = "events"
    /\ x_events' = events
    /\ UNCHANGED <<x_keys, x_got, x_last>>

\* get_from_event(ev, *keys) for each event
Export_Probe(keys) ==
    /\ x_pc = "events"
    /\ x_pc' = "probed"
    /\ x_keys' = keys
    /\ x_got' = [i \in 1..Len(x_events) |-> get_from_event(x_events[i], keys)]
    /\ UNCHANGED <<x_events, x_last>>

\* last_hash = find_last_hash(events)
Export_LastHash ==
    /\ x_pc \in {"events", "probed"}
    /\ x_pc' = "hashed"
    /\ x_last' = find_last_hash(x_events)
    /\ UNCHANGED <<x_events, x_keys, x_got>>

\* the next movie
Export_Next ==
    /\ x_pc = "hashed"
    /\ x_pc' = "idle"
    /\ x_events' = <<>>
    /\ x_keys' = <<>>
    /\ x_got' = <<>>
    /\ x_last' = None

\* the variables each program leaves alone
NotRestore ==
    <<vars_catalog, vars_save, vars_match, vars_history, vars_pages, vars_build, vars_export>>

NotCatalog ==
    <<vars_restore, vars_save, vars_match, vars_history, vars_pages, vars_build, vars_export>>

NotSave ==
    <<vars_restore, vars_catalog, vars_match, vars_history, vars_pages, vars_build, vars_export>>

NotMatch ==
    <<vars_restore, vars_catalog, vars_save, vars_history, vars_pages, vars_build, vars_export>>

NotHistory ==
    <<vars_restore, vars_catalog, vars_save, vars_match, vars_pages, vars_build, vars_export>>

NotPages ==
    <<vars_restore, vars_catalog, vars_save, vars_match, vars_history, vars_build, vars_export>>

NotExport ==
    <<vars_restore, vars_catalog, vars_save, vars_match, vars_history, vars_pages, vars_build>>

NotBuild ==
    <<vars_restore, vars_catalog, vars_save, vars_match, vars_history, vars_pages, vars_export>>

\* no build is running
BuildIdle == BuildStarted /\ ~qb_only

\* no run of build_catalog: the catalog file is absent
NoRun == RunIdle /\ b_file = FileAbsent

\* no restore is running
RestoreIdle == ModuleLoaded /\ ~stdin_tty

Init == ModuleLoaded /\ BuildIdle /\ SaveIdle /\ MatchIdle /\ HistoryIdle /\ PagesIdle /\ ExportIdle /\ NoRun

InitCatalog == RestoreIdle /\ BuildStarted /\ SaveIdle /\ MatchIdle /\ HistoryIdle /\ PagesIdle /\ ExportIdle /\ NoRun

InitSave == RestoreIdle /\ BuildIdle /\ SaveIdle /\ MatchIdle /\ HistoryIdle /\ PagesIdle /\ ExportIdle /\ NoRun

InitMatch == RestoreIdle /\ BuildIdle /\ SaveIdle /\ MatchIdle /\ HistoryIdle /\ PagesIdle /\ ExportIdle /\ NoRun

InitHistory == RestoreIdle /\ BuildIdle /\ SaveIdle /\ MatchIdle /\ HistoryIdle /\ PagesIdle /\ ExportIdle /\ NoRun

InitBuild == RestoreIdle /\ BuildIdle /\ SaveIdle /\ MatchIdle /\ HistoryIdle /\ PagesIdle /\ ExportIdle /\ RunIdle

InitExport == InitBuild /\ b_file = FileAbsent

InitPages == RestoreIdle /\ BuildIdle /\ SaveIdle /\ MatchIdle /\ HistoryIdle /\ PagesIdle /\ ExportIdle /\ NoRun

NextCatalog ==
    \/ \E it \in SonarrItems : Sonarr_Item(it) /\ UNCHANGED NotCatalog
    \/ Sonarr_Done /\ UNCHANGED NotCatalog
    \/ \E it \in RadarrItems : Radarr_Item(it) /\ UNCHANGED NotCatalog
    \/ Radarr_Done /\ UNCHANGED NotCatalog
    \/ Rerun_Start /\ UNCHANGED NotCatalog
    \/ Rerun_Item /\ UNCHANGED NotCatalog
    \/ Rerun_Done /\ UNCHANGED NotCatalog
    \/ NextRun /\ UNCHANGED NotCatalog

\* the restore tool, each run of the script a new process
Next ==
    \/ \E apply \in BOOLEAN, yes \in BOOLEAN, tag \in ArgTags :
          Main_ParseArgs(apply, yes, tag) /\ UNCHANGED NotRestore
    \/ pc = "load" /\ \E doc \in Documents : Main_LoadInput(doc) /\ UNCHANGED NotRestore
    \/ \E ok \in BOOLEAN : Main_Login(ok) /\ UNCHANGED NotRestore
    \/ pc = "fetch" /\ \E ok \in BOOLEAN, listing \in TorrentListings :
          Main_FetchTorrents(ok, listing) /\ UNCHANGED NotRestore
    \/ Main_Plan /\ UNCHANGED NotRestore
    \/ Main_DryRunGate /\ UNCHANGED NotRestore
    \/ \E ans \in Answers, eof \in BOOLEAN : Main_Confirm(ans, eof) /\ UNCHANGED NotRestore
    \/ \E o \in ApplyOutcomes : Main_ApplyAction(o) /\ UNCHANGED NotRestore
    \/ Main_SaveResults /\ UNCHANGED NotRestore
    \/ NewProcess /\ UNCHANGED NotRestore

\* the restore tool, main called by a new process or again by the same one
NextInProcess ==
    \/ Next
    \/ Main_Again /\ UNCHANGED NotRestore

\* save_catalog, called again and again, on the files earlier calls left
NextSave ==
    \/ \E doc \in CatalogDocs : Save_Call(doc) /\ UNCHANGED NotSave
    \/ Save_OpenTmp /\ UNCHANGED NotSave
    \/ Save_Write /\ UNCHANGED NotSave
    \/ Save_Close /\ UNCHANGED NotSave
    \/ Save_Replace /\ UNCHANGED NotSave
    \/ Save_Crash /\ UNCHANGED NotSave

\* the movie export, each run a new process
NextMatch ==
    \/ m_pc = "main" /\ \E o \in FetchOutcomes, movies \in MovieListings, torrents \in MTorrentListings :
          Match_Fetch(o, movies, torrents) /\ UNCHANGED NotMatch
    \/ Match_Movie /\ UNCHANGED NotMatch
    \/ \E ok \in BOOLEAN : Match_Write(ok) /\ UNCHANGED NotMatch
    \/ Match_NewProcess /\ UNCHANGED NotMatch

\* the history export: calls of fetch_all_history
NextHistory ==
    \/ Fetch_Call /\ UNCHANGED NotHistory
    \/ \E status \in Failures : Retry_Failure(status) /\ UNCHANGED NotHistory
    \/ \E json \in BOOLEAN, d \in Datas(page) : Retry_Answer(json, d) /\ UNCHANGED NotHistory
    \/ Retry_Exhausted /\ UNCHANGED NotHistory
    \/ Fetch_Page /\ UNCHANGED NotHistory

\* the history generators of the catalog build
NextPages ==
    \/ \E source \in {"sonarr", "radarr"}, pages_arg \in 0..MaxPagesArg :
          Pages_Call(source, pages_arg) /\ UNCHANGED NotPages
    \/ \E payload \in Payloads : Pages_Request(payload) /\ UNCHANGED NotPages
    \/ Pages_RequestFails /\ UNCHANGED NotPages
    \/ Pages_End /\ UNCHANGED NotPages

\* runs of build_catalog, one after the other, on the file the earlier ones left
NextBuild ==
    \/ b_pc = "idle" /\ \E a \in BuildArgs : Build_Call(a) /\ UNCHANGED NotBuild
    \/ \E ok \in BOOLEAN : Build_Login(ok) /\ UNCHANGED NotBuild
    \/ \E ok \in BOOLEAN : Build_List(ok) /\ UNCHANGED NotBuild
    \/ Build_Load /\ UNCHANGED NotBuild
    \/ Build_FetchFails /\ UNCHANGED NotBuild
    \/ b_pc \in {"sonarr", "radarr"} /\ \E recs \in BuildPages(b_pc), more \in BOOLEAN :
          Build_Page(recs, more) /\ UNCHANGED NotBuild
    \/ Build_PagesEnd /\ UNCHANGED NotBuild
    \/ \E ok \in BOOLEAN : Build_Save(ok) /\ UNCHANGED NotBuild
    \/ Build_Exit /\ UNCHANGED NotBuild

\* the history export, movie after movie
NextExport ==
    \/ x_pc = "idle" /\ \E events \in SeqsUpTo(HEventPool, MaxEvents) :
          Export_Events(events) /\ UNCHANGED NotExport
    \/ \E keys \in KeyLists : Export_Probe(keys) /\ UNCHANGED NotExport
    \/ Export_LastHash /\ UNCHANGED NotExport
    \/ Export_Next /\ UNCHANGED NotExport

vars ==
    <<vars_restore, vars_catalog, vars_save, vars_match, vars_history, vars_pages, vars_build,
      vars_export>>

\* runs of relocated-torrent.py
Spec == Init /\ [][Next]_vars

\* calls of main of relocated-torrent.py, several of them by one process
SpecInProcess == Init /\ [][NextInProcess]_vars

\* runs of build_catalog.py
SpecCatalog == InitCatalog /\ [][NextCatalog]_vars

\* calls of save_catalog
SpecSave == InitSave /\ [][NextSave]_vars

\* runs of radar_movies_import.py
SpecMatch == InitMatch /\ [][NextMatch]_vars

\* calls of fetch_all_history of radarr_history_export.py. The script is one
\* sequential process: while a step of it can be taken, one is taken.
SpecHistory == InitHistory /\ [][NextHistory]_vars /\ WF_vars(NextHistory)

\* calls of sonarr_history_pages and radarr_history_pages of build_catalog.py
SpecPages == InitPages /\ [][NextPages]_vars

\* get_from_event and find_last_hash of radarr_history_export.py, movie after movie
SpecExport == InitExport /\ [][NextExport]_vars

\* runs of build_catalog of build_catalog.py
SpecBuild == InitBuild /\ [][NextBuild]_vars

(***************************************************************************)
(* Properties of relocated-torrent.py, checked under Spec                  *)
(***************************************************************************)
\* the positions in qb_calls of the requests that change the client
MutatingCalls == {i \in 1..Len(qb_calls) : qb_calls[i].op \in {"setLocation", "recheck"}}

NoMutatingCall == MutatingCalls = {}

\* C1: in a run started without the apply flag, no setLocation and no recheck
\* request is ever sent to the torrent client, whatever the number of planned
\* actions (the plan is written instead).
C1_DryRunSendsNoMutation == ~args.apply => NoMutatingCall

\* a dry run that ended after writing a plan of two actions
C1_Witness ==
    /\ pc = "exited"
    /\ ~args.apply
    /\ args.yes
    /\ Len(actions) >= 2
    /\ out_plan.written /\ Len(out_plan.rows) = Len(actions)
    /\ NoMutatingCall

\* the answers of Answers that read y, yes, o or oui once trimmed and lower-cased
TypedYes == { <<"y">>, <<" ", "Y", "e", "s">>, <<"O">>, <<"o", "u", "i", " ">> }

\* C2: a setLocation or recheck request is sent only in a run with the apply
\* flag and with either the --yes flag or an affirmative answer at the prompt;
\* after a negative or empty answer the run has ended without any such request.
C2_ConfirmationGate ==
    /\ ~NoMutatingCall => args.apply /\ (args.yes \/ answer \in TypedYes)
    /\ (answer # None /\ answer \notin TypedYes) => (pc = "exited" /\ NoMutatingCall)

\* a run without --yes that applied after the answer " Yes"
C2_Witness ==
    /\ ~NoMutatingCall
    /\ args.apply /\ ~args.yes
    /\ answer = <<" ", "Y", "e", "s">>

\* a run with --apply, without --yes, whose standard input is no terminal, has ended
ApplyUnattended == pc = "exited" /\ args.apply /\ ~args.yes /\ ~stdin_tty

\* C3 as stated: every run with --apply, without --yes, on a non-interactive
\* standard input ends with a non-zero status and no mutating request, for
\* every plan size, the empty plan included.
C3_AbortForEveryPlanSize == ApplyUnattended => (rc # 0 /\ NoMutatingCall)

\* C3 as amended: such a run sends no mutating request; with a non-empty plan
\* it ends with status 1; it ends with status 0 only when the planning found
\* no action, in which case main returns before the confirmation gate.
C3_AbortUnlessPlanEmpty ==
    ApplyUnattended =>
        /\ NoMutatingCall
        /\ actions # <<>> => rc = 1
        /\ rc = 0 => (actions = <<>> /\ Len(qb_calls) = 2)

\* an unattended run that planned two actions and aborted
C3_Witness == ApplyUnattended /\ Len(actions) >= 2 /\ rc = 1 /\ answer = None

(***************************************************************************)
(* Properties of build_catalog.py, checked under SpecCatalog               *)
(*                                                                         *)
(* The hash of an event is the hash the loop passes to the merge helper    *)
(* (downloadId lower-cased and trimmed), which is the form it is stored in.*)
(***************************************************************************)
\* the merge calls made for one entry, in the order they were made
CallsFor(k) == SelectSeq(merged, LAMBDA c : Key(c) = k)

\* the merge helper of the namespace of a call, applied to an entry
MergeCall(e, c) ==
    IF c.ns = "radarr" THEN merge_movie(e, c.add_hash, c.event_dt, c.title, c.a)
    ELSE merge_episode(e, c.add_hash, c.event_dt, c.title, c.a, c.b)

\* C4: merging a batch of events and then the same batch again, in the same
\* order, leaves the catalog as it was after the first merge (every entry:
\* candidates, latest, max_event_at, descriptive fields).
C4_MergeIdempotent == (pc_c = "replay" /\ ri = Len(merged)) => catalog = snap

\* a second run has merged again a batch of three events that left an entry
\* with two candidates and a watermark
C4_Witness ==
    /\ pc_c = "replay" /\ ri = Len(merged)
    /\ batch_from = 0 /\ Len(merged) >= 3
    /\ \E k \in Keys(catalog) :
          /\ Len(EntryOf(catalog, k).candidates) >= 2
          /\ "max_event_at" \in EntryOf(catalog, k).keys

\* the entry after the calls cs[p[1]], ..., cs[p[n]] merged into an empty entry
RECURSIVE MergeInOrder(_, _, _)
MergeInOrder(cs, p, n) ==
    IF n = 0 THEN EmptyEntry ELSE MergeCall(MergeInOrder(cs, p, n - 1), cs[p[n]])

\* what C5 compares of two entries
SameResult(e, f) ==
    /\ Range(e.candidates) = Range(f.candidates)
    /\ e.latest = f.latest
    /\ MaxPrev(e) = MaxPrev(f)
    /\ \A d \in {"title", "year", "season", "episode"} : (d \in e.keys) = (d \in f.keys)
    /\ e.title = f.title /\ e.year = f.year /\ e.season = f.season /\ e.episode = f.episode

\* C5 as stated: the events merged for a media key, merged into an empty
\* entry in any other order, yield the same entry: same candidate set, same
\* latest, same max_event_at, same descriptive fields.
C5_MergeOrderIndependent ==
    \A k \in Keys(catalog) :
        LET cs == CallsFor(k)
        IN  \A p \in Permutations(1..Len(cs)) :
                SameResult(MergeInOrder(cs, p, Len(cs)), EntryOf(catalog, k))

HashOrNone(h) == IF h = <<>> THEN None ELSE h

\* C6 as stated: the latest hash of an entry is the hash carried by the
\* event that set its max_event_at: latest and max_event_at describe the
\* same event.
C6_LatestIsHashOfNewest ==
    \A k \in Keys(catalog) :
        "max_event_at" \in EntryOf(catalog, k).keys =>
            /\ k \in DOMAIN raiser
            /\ EntryOf(catalog, k).latest = HashOrNone(raiser[k])

\* two events of one key, with distinct dates after the epoch and distinct
\* non-empty hashes, are all that was merged into the entry of k
TwoEvents(k) ==
    LET cs == CallsFor(k)
    IN  /\ Len(cs) = 2
        /\ cs[1].event_dt > 0 /\ cs[2].event_dt > 0
        /\ cs[1].event_dt # cs[2].event_dt
        /\ cs[1].add_hash # <<>> /\ cs[2].add_hash # <<>>
        /\ cs[1].add_hash # cs[2].add_hash

\* C7: after two such events, merged in either order, latest is the hash of
\* the later event and the candidates are exactly the two hashes.
C7_TwoEventsLaterWins ==
    \A k \in Keys(catalog) :
        TwoEvents(k) =>
            LET cs == CallsFor(k)
                later == IF cs[1].event_dt > cs[2].event_dt THEN cs[1] ELSE cs[2]
                e == EntryOf(catalog, k)
            IN  /\ e.latest = later.add_hash
                /\ Range(e.candidates) = {cs[1].add_hash, cs[2].add_hash}
                /\ Len(e.candidates) = 2

\* the later of the two events was merged first
C7_Witness ==
    \E k \in Keys(catalog) :
        /\ TwoEvents(k)
        /\ CallsFor(k)[1].event_dt > CallsFor(k)[2].event_dt
        /\ EntryOf(catalog, k).latest = CallsFor(k)[1].add_hash

\* C8: every entry whose latest hash is non-empty has it among its candidates.
C8_LatestInCandidates ==
    \A k \in Keys(catalog) :
        LET e == EntryOf(catalog, k)
        IN  Truthy(e.latest) => e.latest \in Range(e.candidates)

\* an entry whose latest is the second of its two candidates
C8_Witness ==
    \E k \in Keys(catalog) :
        LET e == EntryOf(catalog, k)
        IN  Len(e.candidates) = 2 /\ e.latest = e.candidates[2]

\* C9: no merge lowers the max_event_at of an entry, in a first run or in a
\* run over a history window merged before; once set, it stays set.
C9_WatermarkMonotonic ==
    [][\A k \in Keys(catalog') :
          /\ MaxPrev(EntryOf(catalog', k)) >= MaxPrev(EntryOf(catalog, k))
          /\ "max_event_at" \in EntryOf(catalog, k).keys
                => "max_event_at" \in EntryOf(catalog', k).keys]_vars

\* an entry whose watermark was raised twice, and then met an older event
C9_Witness ==
    \E k \in Keys(catalog) :
        LET cs == CallsFor(k)
        IN  /\ Len(cs) = 3
            /\ 0 < cs[1].event_dt /\ cs[1].event_dt < cs[2].event_dt
            /\ cs[3].event_dt < cs[2].event_dt
            /\ MaxPrev(EntryOf(catalog, k)) = cs[2].event_dt

\* every non-empty hash merged is among the candidates of its entry, and no
\* candidates list holds a hash twice
C10_AllMergedOnce ==
    /\ \A i \in 1..Len(merged) :
          merged[i].add_hash # <<>> =>
              merged[i].add_hash \in Range(EntryOf(catalog, Key(merged[i])).candidates)
    /\ \A k \in Keys(catalog) : NoRepeat(EntryOf(catalog, k).candidates)

\* no step removes a hash from the candidates of an entry
C10_NoneRemoved ==
    \A k \in Keys(catalog) :
        Range(EntryOf(catalog, k).candidates) \subseteq Range(EntryOf(catalog', k).candidates)

\* C10: after any sequence of merges every non-empty hash that was merged is
\* in the candidates of its entry, no hash is there twice, and no merge
\* removes a hash from candidates.
C10_CandidateSetUnion == [](C10_AllMergedOnce) /\ [][C10_NoneRemoved]_vars

\* an entry that met the same hash twice and another hash once
C10_Witness ==
    \E k \in Keys(catalog) :
        LET cs == CallsFor(k)
        IN  /\ Len(cs) = 3
            /\ cs[1].add_hash # <<>>
            /\ cs[1].add_hash = cs[3].add_hash
            /\ cs[2].add_hash \notin {<<>>, cs[1].add_hash}
            /\ Len(EntryOf(catalog, k).candidates) = 2

\* the hashes an entry stores
StoredHashes(e) == Range(e.candidates) \cup (IF Truthy(e.latest) THEN {e.latest} ELSE {})

\* C11 as stated: every hash stored in an entry, in candidates and in
\* latest, is stored in upper case.
C11_StoredUppercase ==
    \A k \in Keys(catalog) : \A h \in StoredHashes(EntryOf(catalog, k)) : h = Upper(h)

\* C11, amended: every hash stored in an entry, in candidates and in latest,
\* is stored in lower case and trimmed, whatever the case of the downloadId
\* of the history record: the lower-case form of every downloadId merged is
\* among the candidates of its entry.
C11_StoredLowercase ==
    /\ \A k \in Keys(catalog) :
          \A h \in StoredHashes(EntryOf(catalog, k)) : h = Lower(h) /\ h = Strip(h)
    /\ \A i \in 1..Len(merged) :
          Truthy(merged[i].raw) /\ Strip(merged[i].raw) # <<>> =>
              Lower(Strip(merged[i].raw)) \in
                  Range(EntryOf(catalog, Key(merged[i])).candidates)

\* a record whose downloadId is in upper case set the latest of its entry
C11_Witness ==
    \E i \in 1..Len(merged) :
        /\ Truthy(merged[i].raw)
        /\ merged[i].raw # Lower(merged[i].raw)
        /\ EntryOf(catalog, Key(merged[i])).latest = Lower(Strip(merged[i].raw))

(***************************************************************************)
(* Properties of save_catalog, checked under SpecSave                      *)
(***************************************************************************)
\* d is a proper, non-empty prefix of e
ProperPrefix(d, e) == d # NoFile /\ 0 < Len(d) /\ Len(d) < Len(e) /\ d = SubSeq(e, 1, Len(d))

\* C12: at every instant of a save the catalog path holds the whole previous
\* version (no file, when there was none) or the whole new document, never a
\* part of one; when the save is interrupted before it completes, the path
\* still holds the previous version.
C12_AtomicSave ==
    pc_s # "idle" =>
        /\ fs[CATALOG_PATH] \in {doc_old, doc_new}
        /\ fs[CATALOG_PATH] # NoFile => Complete(fs[CATALOG_PATH])
        /\ crashed => fs[CATALOG_PATH] = doc_old
        /\ pc_s = "done" => fs[CATALOG_PATH] = doc_new

\* a save died with a part of the new document written, over a different
\* previous version, and with it the temporary file
C12_Witness ==
    /\ crashed /\ pc_s = "dump"
    /\ ProperPrefix(fs[TmpPath(CATALOG_PATH)], doc_new)
    /\ Complete(doc_old) /\ doc_old # doc_new
    /\ fs[CATALOG_PATH] = doc_old

(***************************************************************************)
(* Properties of the apply phase of relocated-torrent.py, checked under    *)
(* Spec                                                                    *)
(***************************************************************************)
\* the positions in qb_calls of the requests op made for the hash h
CallsOf(op, h) == {i \in 1..Len(qb_calls) : qb_calls[i].op = op /\ qb_calls[i].hash = h}

\* the positions in qb_calls of the requests op that failed
FailedCalls(op) == {i \in 1..Len(qb_calls) : qb_calls[i].op = op /\ ~qb_calls[i].ok}

\* the result rows of the hash h
RowsOf(h) == {r \in 1..Len(results) : results[r].hash = h}

\* the apply phase has completed: the results were written and main returned
ApplyCompleted == pc = "exited" /\ out_results.written

\* every action of the plan that has a target folder was attempted
AllAttempted ==
    \A j \in 1..Len(actions) :
        Truthy(actions[j].target_folder) => CallsOf("setLocation", actions[j].hash) # {}

\* C13: when setLocation fails for an action, the failure is recorded in
\* the row of that action, setLocation is not sent again and no recheck is
\* sent for that hash, the run is not aborted, and every later action of
\* the plan is still attempted.
C13_SetLocationFailureIsSoft ==
    /\ \A i \in FailedCalls("setLocation") :
          LET h == qb_calls[i].hash
          IN  /\ CallsOf("setLocation", h) = {i}
              /\ CallsOf("recheck", h) = {}
              /\ pc = "exited" => rc = 0
              /\ \A r \in RowsOf(h) :
                    /\ ~results[r].ok_setLocation /\ ~results[r].ok_recheck
                    /\ results[r].notes = <<"setLocation failed">>
              /\ (pc = "exited" \/ ai > 0) => RowsOf(h) # {}
    /\ ApplyCompleted => AllAttempted

\* the first action failed at setLocation and the second one was applied whole
C13_Witness ==
    /\ ApplyCompleted /\ Len(actions) = 2
    /\ \E i \in FailedCalls("setLocation") :
          /\ qb_calls[i].hash = actions[1].hash
          /\ \E j \in CallsOf("recheck", actions[2].hash) : j > i /\ qb_calls[j].ok

\* C14: a recheck is sent for a hash only after a setLocation for that hash
\* succeeded earlier in the same run; when the recheck fails the row of the
\* action records ok_setLocation true and ok_recheck false, and the later
\* actions are still attempted.
C14_RecheckAfterSetLocation ==
    /\ \A i \in 1..Len(qb_calls) :
          qb_calls[i].op = "recheck" =>
              \E j \in CallsOf("setLocation", qb_calls[i].hash) : j < i /\ qb_calls[j].ok
    /\ \A i \in FailedCalls("recheck") :
          LET h == qb_calls[i].hash
          IN  /\ RowsOf(h) # {}
              /\ \A r \in RowsOf(h) :
                    /\ results[r].ok_setLocation /\ ~results[r].ok_recheck
                    /\ results[r].notes = <<"recheck failed">>
    /\ ApplyCompleted => AllAttempted

\* the recheck of the first action failed and the second action was rechecked
C14_Witness ==
    /\ ApplyCompleted /\ Len(actions) = 2
    /\ \E i \in FailedCalls("recheck") :
          /\ qb_calls[i].hash = actions[1].hash
          /\ \E j \in CallsOf("recheck", actions[2].hash) : j > i /\ qb_calls[j].ok

\* C15: when the apply phase completes, the results document holds exactly
\* one row per planned action, in the order of the plan, whatever requests
\* succeeded or failed.
C15_OneRowPerAction ==
    ApplyCompleted =>
        /\ Len(out_results.rows) = Len(actions)
        /\ \A i \in 1..Len(actions) :
              /\ out_results.rows[i].hash = actions[i].hash
              /\ out_results.rows[i].name = actions[i].name

\* two actions, the first failed at setLocation, the second has no target
\* folder: two rows all the same
C15_Witness ==
    /\ ApplyCompleted /\ Len(actions) = 2
    /\ FailedCalls("setLocation") # {}
    /\ ~Truthy(actions[2].target_folder)
    /\ Len(out_results.rows) = 2

\* C16 as stated: the exit status of an apply run is non-zero when the
\* setLocation or the recheck of at least one action failed, and zero when
\* every action succeeded.
C16_ExitStatusReflectsFailures ==
    ApplyCompleted =>
        (rc # 0 <=> (FailedCalls("setLocation") \cup FailedCalls("recheck")) # {})

(***************************************************************************)
(* Properties of the planning of relocated-torrent.py, checked under Spec  *)
(***************************************************************************)
\* main has planned, or returned
AfterPlan == pc \in {"gate", "confirm", "apply", "exited"}

\* the torrent carries the tag of the command line
Tagged(t) == Lower(args.tag) \in Range(parse_tags(t.tags))

\* the hash field of an element of the document, as written there: the
\* first of the fields read for the form of the document that is filled
HashField(kind, v) ==
    IF kind = "dict"
    THEN Or2(v.lastHash, Or2(v.torrent_hash, Or2(v.torrentHash, Or2(v.hash, <<>>))))
    ELSE Or2(v.torrent_hash, Or2(v.lastHash, Or2(v.hash, <<>>)))

\* two hashes are the same but for case and surrounding blanks
SameHash(g, h) == Upper(Strip(g)) = Upper(Strip(h))

\* the document has an element whose hash field is the hash of the torrent
Mapped(t) ==
    /\ Truthy(t.hash) /\ Strip(t.hash) # <<>>
    /\ \E i \in 1..Len(input_doc.items) :
          /\ input_doc.items[i].isdict
          /\ SameHash(HashField(input_doc.kind, input_doc.items[i]), t.hash)

\* C17: a torrent that carries the tag becomes a planned action if and only
\* if its hash, compared without regard to case, is the hash field of an
\* element of the input document, in mapping form or in list form; a
\* torrent with no mapped hash gets no action, no result row, no
\* setLocation or recheck request, and the run does not fail for it.
C17_PlannedIffMapped ==
    AfterPlan =>
        /\ \A i \in 1..Len(all_torrents) :
              LET t == all_torrents[i]
                  h == Upper(Strip(Or2(t.hash, <<>>)))
                  planned == \E j \in 1..Len(actions) : actions[j].hash = h
              IN  Tagged(t) =>
                     /\ planned <=> Mapped(t)
                     /\ ~planned =>
                           /\ RowsOf(h) = {}
                           /\ CallsOf("setLocation", h) = {} /\ CallsOf("recheck", h) = {}
        /\ (pc = "exited" /\ all_torrents # <<>> /\ actions = <<>>) => rc = 0

\* a list document whose hash field differs in case and blanks from the
\* hash of the torrent it maps; a second tagged torrent is not mapped; the
\* apply phase completed
C17_Witness ==
    /\ ApplyCompleted /\ input_doc.kind = "list"
    /\ Len(all_torrents) = 2 /\ Len(actions) = 1 /\ Len(results) = 1
    /\ \A i \in 1..2 : Tagged(all_torrents[i])
    /\ \E i \in 1..2, k \in 1..Len(input_doc.items) :
          /\ Mapped(all_torrents[i])
          /\ SameHash(HashField("list", input_doc.items[k]), all_torrents[i].hash)
          /\ HashField("list", input_doc.items[k]) # all_torrents[i].hash
          /\ HashField("list", input_doc.items[k]) # Upper(all_torrents[i].hash)

\* the target string resolved from a mapping: the folder field, else the
\* parent of an imported-file-path field
Resolved(m) ==
    Get(Or2(m.folder, Or2(m.Folder,
        dirname_of_path(Get(Or2(m.importedFilePath,
                                Or2(m.moviefile_path, Or2(m.movieFile, m.mkv_file))))))))

\* the text is the path of a media file: it ends in .mkv, in any case
IsMediaPath(p) == Truthy(p) /\ EndsWith(Lower(p), Ext_mkv)

\* C18 as stated: when the target string resolved from the mapping ends in
\* .mkv, the planned target is the parent directory of that string; no
\* planned action has a target that is a media file path.
C18_MkvTargetIsParent ==
    AfterPlan =>
        \A j \in 1..Len(actions) :
            LET r == Resolved(input_map[actions[j].hash])
            IN  /\ IsMediaPath(r) => actions[j].target_folder = PathParent(r)
                /\ ~IsMediaPath(actions[j].target_folder)

\* the descriptive fields of the entries of a namespace
Descriptive(ns) == IF ns = "radarr" THEN {"title", "year"} ELSE {"title", "season", "episode"}

\* the value a merge call carries for a descriptive field
Carried(c, f) ==
    CASE f = "title" -> c.title
      [] f \in {"year", "season"} -> c.a
      [] f = "episode" -> c.b

\* the call carries a value for the field: not null, and not an empty title
\* or a year of 0, which are taken as no value
Supplies(c, f) ==
    /\ Carried(c, f) # None
    /\ f = "title" => Carried(c, f) # <<>>
    /\ f = "year" => Carried(c, f) # N_0

\* C30: each descriptive field of an entry holds the value of the first merge
\* that carried one for it: a merge sets a field that no earlier event
\* supplied, and no later merge changes it.
C30_FirstWriteWins ==
    \A k \in Keys(catalog) : \A f \in Descriptive(k.ns) :
        LET supplied == SelectSeq(CallsFor(k), LAMBDA c : Supplies(c, f))
        IN  supplied # <<>>
                => (f \in EntryOf(catalog, k).keys
                    /\ EntryOf(catalog, k)[f] = Carried(supplied[1], f))

\* C30, the part the code keeps: a descriptive field that holds a value is
\* not changed by any later merge
C30_SetFieldsKept ==
    [][\A k \in Keys(catalog) : \A f \in Descriptive(k.ns) :
          (f \in EntryOf(catalog, k).keys /\ EntryOf(catalog, k)[f] # None)
              => (HasEntry(catalog', k) /\ EntryOf(catalog', k)[f] = EntryOf(catalog, k)[f])]_vars

(***************************************************************************)
(* Properties of the matcher of radar_movies_import.py, checked under      *)
(* SpecMatch                                                               *)
(***************************************************************************)
\* the save path of the torrent is the folder of the movie of the entry
SavePathIsFolder(t, e) == Truthy(e.folder) /\ SavePathKey(t) = e.folder

\* the name of the torrent contains the file name of the movie of the entry
NameHasFilename(t, e) ==
    e.mkv_files # <<>> /\ Contains(Lower(Or2(t.name, <<>>)), Lower(e.mkv_files[1]))

\* the file list of the torrent holds the file name of the movie of the entry
FilesHaveFilename(t, e) == e.mkv_files # <<>> /\ InFilesList(Lower(e.mkv_files[1]), t)

\* the rows of matched_torrents of the entry that carry the hash of the torrent
MatchedRowsOf(t, e) ==
    {r \in 1..Len(e.matched_torrents) : e.matched_torrents[r].hash = Upper(Or2(t.hash, <<>>))}

\* the torrent has exactly one row in the entry, and its reason is save_path
OnceBySavePath(t, e) ==
    /\ Cardinality(MatchedRowsOf(t, e)) = 1
    /\ \A r \in MatchedRowsOf(t, e) : e.matched_torrents[r].matched_by = "save_path"

\* C19 as stated: a torrent whose save path is the folder of the movie and
\* whose name contains the file name of the movie appears exactly once in
\* matched_torrents, with the reason save_path.
C19_SavePathReasonWins ==
    \A n \in 1..Len(m_output), i \in 1..Len(m_torrents) :
        (SavePathIsFolder(m_torrents[i], m_output[n]) /\ NameHasFilename(m_torrents[i], m_output[n]))
            => OnceBySavePath(m_torrents[i], m_output[n])

\* C19, amended: such a torrent, when it has a hash, appears exactly once in
\* matched_torrents, with the reason save_path; a torrent with no hash has
\* no row at all.
C19_SavePathReasonWinsWithHash ==
    \A n \in 1..Len(m_output) :
        /\ \A i \in 1..Len(m_torrents) :
              (/\ Truthy(m_torrents[i].hash)
               /\ SavePathIsFolder(m_torrents[i], m_output[n])
               /\ NameHasFilename(m_torrents[i], m_output[n]))
                  => OnceBySavePath(m_torrents[i], m_output[n])
        /\ \A r \in 1..Len(m_output[n].matched_torrents) :
              m_output[n].matched_torrents[r].hash # <<>>

\* a torrent listed second matched by both tiers and has its one row, with
\* save_path, next to the row of a torrent matched by its name
C19_Witness ==
    \E n \in 1..Len(m_output) :
        /\ Len(m_torrents) = 2 /\ Len(m_output[n].matched_torrents) = 2
        /\ Truthy(m_torrents[2].hash)
        /\ SavePathIsFolder(m_torrents[2], m_output[n])
        /\ NameHasFilename(m_torrents[2], m_output[n])
        /\ OnceBySavePath(m_torrents[2], m_output[n])
        /\ \E r \in MatchedRowsOf(m_torrents[1], m_output[n]) :
              m_output[n].matched_torrents[r].matched_by = "name_contains_filename"

\* the reason of the earliest strategy that matches the torrent
EarliestReason(t, e) ==
    IF SavePathIsFolder(t, e) THEN "save_path"
    ELSE IF NameHasFilename(t, e) THEN "name_contains_filename"
    ELSE IF FilesHaveFilename(t, e) THEN "files_list"
    ELSE "none"

\* C20: the matched_torrents of one movie hold no two rows with the same
\* hash, and the row kept for a torrent carries the reason of the earliest
\* strategy that matched it.
C20_OneRowPerHashFirstReason ==
    \A n \in 1..Len(m_output) :
        LET rows == m_output[n].matched_torrents
        IN  /\ \A q, r \in 1..Len(rows) : rows[q].hash = rows[r].hash => q = r
            /\ \A i \in 1..Len(m_torrents) :
                  \A r \in MatchedRowsOf(m_torrents[i], m_output[n]) :
                      rows[r].matched_by = EarliestReason(m_torrents[i], m_output[n])

\* a torrent matched by its save path and by its file list has one row, with
\* save_path, and another torrent has a row too
C20_Witness ==
    \E n \in 1..Len(m_output), i \in 1..Len(m_torrents) :
        /\ SavePathIsFolder(m_torrents[i], m_output[n])
        /\ FilesHaveFilename(m_torrents[i], m_output[n])
        /\ OnceBySavePath(m_torrents[i], m_output[n])
        /\ Len(m_output[n].matched_torrents) = 2

\* the path with every backslash written as a slash
ForwardSlashes(p) == [i \in 1..Len(p) |-> IF p[i] = "\\" THEN "/" ELSE p[i]]

\* the two paths differ at most in the separator used and in repeated
\* separators
SameUpToSeparators(p, q) ==
    CollapseSlashes(ForwardSlashes(p)) = CollapseSlashes(ForwardSlashes(q))

\* the save path of the torrent as the client lists it
ListedSavePath(t) == Or2(t.save_path, Or2(t.savePath, <<>>))

\* C21: a torrent (with a hash) whose save path differs from the folder of
\* the movie only in the separator used or in repeated separators is matched
\* to the movie with the reason save_path.
C21_SeparatorsIgnoredBySavePathMatch ==
    \A n \in 1..Len(m_output), i \in 1..Len(m_torrents) :
        (/\ Truthy(m_torrents[i].hash)
         /\ Truthy(m_output[n].folder)
         /\ SameUpToSeparators(ListedSavePath(m_torrents[i]), m_output[n].folder))
            => \E r \in MatchedRowsOf(m_torrents[i], m_output[n]) :
                  m_output[n].matched_torrents[r].matched_by = "save_path"

\* C21, the part the code keeps: inner and trailing runs of slashes, and
\* three or more leading slashes, are ignored by the save-path match
C21_SlashRunsIgnored ==
    \A n \in 1..Len(m_output), i \in 1..Len(m_torrents) :
        (/\ Truthy(m_torrents[i].hash)
         /\ Truthy(m_output[n].folder)
         /\ ListedSavePath(m_torrents[i]) = P_sssdss
         /\ m_output[n].folder = P_d)
            => \E r \in MatchedRowsOf(m_torrents[i], m_output[n]) :
                  m_output[n].matched_torrents[r].matched_by = "save_path"

\* C28: while one movie is matched, the file list is never asked for a
\* torrent that matched that movie by its save path or by its name.
C28_NoFileQueryForMatched ==
    \A k \in 1..Len(m_queries) :
        LET t == m_torrents[m_queries[k].torrent]
            e == m_output[m_queries[k].movie]
        IN  ~SavePathIsFolder(t, e) /\ ~NameHasFilename(t, e)

\* the torrent has a row in the entry
HasRow(t, e) == MatchedRowsOf(t, e) # {}

\* the file list of the torrent, when the query for it succeeds, has a file
\* named as the movie file of the entry
FileListed(t, e) ==
    /\ e.mkv_files # <<>>
    /\ t.files_ok
    /\ \E f \in 1..Len(t.files) :
          LastSegment(Lower(Or2(t.files[f], <<>>))) = Lower(e.mkv_files[1])

\* C29: a failed file-list query counts as no match from that torrent and
\* changes nothing else: every listed torrent (with a hash) has a row in the
\* entry of a movie exactly when its save path, its name or its file list
\* (queried with success) matches the movie; and a run that wrote its output
\* wrote one entry per movie, in the order of the movies.
C29_FileQueryFailureIsNoMatch ==
    /\ \A n \in 1..Len(m_output), i \in 1..Len(m_torrents) :
          Truthy(m_torrents[i].hash)
              => (HasRow(m_torrents[i], m_output[n])
                     <=> \/ SavePathIsFolder(m_torrents[i], m_output[n])
                         \/ NameHasFilename(m_torrents[i], m_output[n])
                         \/ FileListed(m_torrents[i], m_output[n]))
    /\ (m_pc = "exited" /\ m_written)
          => /\ Len(m_output) = Len(m_movies)
             /\ \A n \in 1..Len(m_movies) : m_output[n].radarr_id = m_movies[n].id

\* the query for the first torrent failed while the first movie was matched:
\* the second torrent has its row by the file name, the first has none, and
\* the run wrote an entry for the second movie too, with no match
C29_Witness ==
    /\ m_pc = "exited" /\ m_written /\ m_rc = 0
    /\ Len(m_output) = 2 /\ Len(m_torrents) = 2
    /\ \E k \in 1..Len(m_queries) :
          m_queries[k].movie = 1 /\ m_queries[k].torrent = 1 /\ ~m_queries[k].ok
    /\ ~HasRow(m_torrents[1], m_output[1])
    /\ \E r \in MatchedRowsOf(m_torrents[2], m_output[1]) :
          m_output[1].matched_torrents[r].matched_by \in {"name_contains_filename", "files_list"}
    /\ m_output[2].matched_torrents = <<>>

(***************************************************************************)
(* Properties of request_with_retry and fetch_all_history of               *)
(* radarr_history_export.py, checked under SpecHistory                     *)
(***************************************************************************)
\* every answer of the text is HTTP 429
Only429(q) == \A i \in 1..Len(q) : q[i] = "429"

\* the answers before the last one
Front(q) == SubSeq(q, 1, Len(q) - 1)

\* C22: when the server answers 429 k times and then 200, k smaller than the
\* retry budget, request_with_retry is still asking after the k-th 429, and
\* at the 200 it returns the page, after exactly k backoff waits (2 s times
\* 1.5 to the attempt), with no error raised.
C22_RateLimitedThenServed ==
    /\ (h_pc # "idle" /\ Only429(h_statuses) /\ Len(h_statuses) < MAX_RETRIES)
          => (h_pc = "retry" /\ h_error = "none" /\ attempt < MAX_RETRIES)
    /\ (/\ h_statuses # <<>>
        /\ h_statuses[Len(h_statuses)] = "200"
        /\ Only429(Front(h_statuses))
        /\ h_error # "non_json"
        /\ h_pc = "page")
          => /\ data \in Datas(page)
             /\ h_error = "none"
             /\ Len(h_waits) = Len(h_statuses) - 1
             /\ \A i \in 1..Len(h_waits) : h_waits[i] = (64 * 3^(i - 1)) \div 2^(i - 1)

\* the page came back at the last attempt of the budget, after four 429
C22_Witness ==
    /\ h_pc = "page"
    /\ Len(h_statuses) = MAX_RETRIES
    /\ Only429(Front(h_statuses))
    /\ h_statuses[MAX_RETRIES] = "200"
    /\ Len(h_waits) = MAX_RETRIES - 1
    /\ data.items # <<>>

\* C23: a 4xx answer other than 429 ends the fetch at once with a fatal
\* error: it is the last answer of the call, and no wait follows it.
C23_ClientErrorIsFatalAtOnce ==
    \A i \in 1..Len(h_statuses) :
        h_statuses[i] = "4xx"
            => (i = Len(h_statuses) /\ h_pc = "raised" /\ Len(h_waits) < i)

\* C24: one call of request_with_retry makes at most MAX_RETRIES requests;
\* when the budget is spent and no request was answered 200 the only step
\* left is the fatal error; the call returns only after a 200; and every
\* call comes to an end.
C24_AttemptBounded ==
    /\ [](Len(h_statuses) <= MAX_RETRIES)
    /\ []((Len(h_statuses) = MAX_RETRIES /\ "200" \notin Range(h_statuses))
             => \/ (h_pc = "raised" /\ h_error = "exhausted")
                \/ (h_pc = "retry" /\ attempt >= MAX_RETRIES))
    /\ [](h_pc \in {"page", "returned"} => "200" \in Range(h_statuses))
    /\ [](h_error = "exhausted" => "200" \notin Range(h_statuses))
    /\ ((h_pc = "retry") ~> (h_pc # "retry"))

\* five requests, none answered 200, and the call raised
C24_Witness ==
    /\ h_pc = "raised"
    /\ h_error = "exhausted"
    /\ Len(h_statuses) = MAX_RETRIES
    /\ {"429", "5xx", "neterr"} \subseteq Range(h_statuses)

\* the items of the pages, one after the other
RECURSIVE Concat(_)
Concat(ps) == IF ps = <<>> THEN <<>> ELSE Head(ps).items \o Concat(Tail(ps))

\* C25: the pages fetched are pages 1, 2, ..., each once; a page with no item
\* or with fewer items than the page size is the last one fetched, and the
\* fetch has returned; what is returned is the items of the pages fetched, in
\* page order (stated for the fetches of at most PageCap pages, whose pages
\* are all logged).
C25_PaginationStops ==
    /\ \A i \in 1..Len(h_fetched) :
          /\ h_fetched[i].page = i
          /\ Len(h_fetched[i].items) < PageSize => (i = Len(h_fetched) /\ h_pc = "returned")
    /\ (h_pc = "returned" /\ ~Over)
          => (all_items = Concat(h_fetched) /\ Len(h_fetched) = page)

\* two full pages and a short one were fetched and returned
C25_Witness ==
    /\ h_pc = "returned"
    /\ Len(h_fetched) = 3
    /\ Len(h_fetched[3].items) = 1
    /\ Len(all_items) = 2 * PageSize + 1

\* C26: every call of fetch_all_history comes to an end, whatever the server
\* answers.
C26_FetchTerminates == (h_pc = "retry") ~> (h_pc \in {"returned", "raised"})

(***************************************************************************)
(* Properties of the history generators of build_catalog.py, checked       *)
(* under SpecPages                                                         *)
(***************************************************************************)
\* the request is the last one a generator may make: its page is empty, or
\* its page number times the page size reaches the totalRecords it reports
StopsAt(r) ==
    \/ r.payload.n = 0
    \/ (r.payload.total # NoTotal /\ r.page * HistPageSize >= r.payload.total)

\* C27: the pages are requested in the order 1, 2, 3, ..., each at most once;
\* at most max_pages pages are requested; no page is requested after an
\* empty page or after the page at which page * pageSize reaches the
\* reported totalRecords.
C27_PagesInOrderAndBounded ==
    /\ \A i \in 1..Len(g_requests) : g_requests[i].page = i
    /\ Len(g_requests) <= g_max_pages
    /\ \A i \in 1..Len(g_requests) : StopsAt(g_requests[i]) => i = Len(g_requests)
    /\ \A i \in 1..Len(g_requests) :
          (StopsAt(g_requests[i]) /\ g_requests[i].payload.kind = "records") => g_pc = "done"

\* three pages were asked for and the third one reported the total reached
C27_Witness ==
    /\ g_pc = "done"
    /\ Len(g_requests) = 3
    /\ g_max_pages = 3
    /\ g_requests[3].payload.n > 0
    /\ g_requests[3].payload.total = 3 * HistPageSize
    /\ Len(g_yielded) = 3

(***************************************************************************)
(* Further properties of build_catalog.py, checked under SpecCatalog       *)
(***************************************************************************)
\* the merge call a step makes, in a sequence of its own; no call: the empty sequence
CallOfStep ==
    IF Len(merged') = Len(merged) + 1 THEN <<merged'[Len(merged')]>>
    ELSE IF pc_c = "replay" /\ ri' = ri + 1 THEN <<merged[ri']>>
    ELSE <<>>

\* the value a reader of the dictionary gets for latest
LatestOf(e) == IF "latest" \in e.keys THEN e.latest ELSE None

\* C31: an event whose timestamp is absent or unparsable is merged: it never
\* changes max_event_at and never changes latest of its entry, whatever the
\* entry held; it can only add its hash to candidates.
C31_UndatedEventKeepsWatermark ==
    [][\A i \in 1..Len(CallOfStep) :
          LET c == CallOfStep[i]
              e == EntryOf(catalog, Key(c))
              f == EntryOf(catalog', Key(c))
          IN  c.date.kind # "iso" =>
                /\ HasEntry(catalog', Key(c))
                /\ ("max_event_at" \in f.keys) = ("max_event_at" \in e.keys)
                /\ f.max_event_at = e.max_event_at
                /\ LatestOf(f) = LatestOf(e)
                /\ f.candidates \in {e.candidates, Append(e.candidates, c.add_hash)}]_vars

\* an entry with a watermark and a latest hash met an event with no usable
\* date and a new hash: the hash is a candidate, latest is the older hash
C31_Witness ==
    \E k \in Keys(catalog) :
        LET cs == CallsFor(k)
            e == EntryOf(catalog, k)
        IN  /\ Len(cs) = 2
            /\ cs[1].date.kind = "iso" /\ cs[1].event_dt > 0
            /\ cs[2].date.kind # "iso"
            /\ cs[2].add_hash \notin {<<>>, cs[1].add_hash}
            /\ e.candidates = <<cs[1].add_hash, cs[2].add_hash>>
            /\ e.latest = cs[1].add_hash
            /\ e.max_event_at = iso(cs[1].event_dt)


\* the event types the build merges, per source, in lower case
AllowList(source) ==
    IF source = "sonarr"
    THEN {W_grabbed, W_grab, W_download, W_downloadimported, W_episodefileimported,
          W_upgrade, W_downloadfolderimported}
    ELSE {W_grabbed, W_grab, W_download, W_moviefileimported, W_downloadfolderimported,
          W_upgrade}

\* the event type of a record is in the allow-list of its source, whatever its case
Allowed(c) == Truthy(c.type) /\ Lower(c.type) \in AllowList(c.src)

\* the record names its media: a series and an episode, or a movie
Keyed(c) == TruthyNum(c.id) /\ (c.src = "sonarr" => TruthyNum(c.sid))

\* a step of a history loop: it has handled one record
LoopStep == pc_c \in {"sonarr", "radarr"} /\ pc_c' = pc_c

\* C32: a record is merged only if its event type, compared
\* case-insensitively, is in the allow-list of its source; a record of any
\* other type, or without a usable media key, leaves the whole catalog
\* unchanged and creates no entry.
C32_OnlyAllowedTypesMerged ==
    [][LoopStep =>
          LET c == handled'[1]
          IN  /\ (merged' # merged \/ catalog' # catalog) => Allowed(c) /\ Keyed(c)
              /\ (~Allowed(c) \/ ~Keyed(c)) =>
                    /\ catalog' = catalog
                    /\ Keys(catalog') = Keys(catalog)
                    /\ merged' = merged]_vars

\* the Radarr loop met, on a catalog that holds an entry, a record whose type
\* is in the allow-list of Sonarr only, and before it one in mixed case that
\* was merged
C32_Witness ==
    /\ pc_c = "radarr"
    /\ handled # <<>>
    /\ handled[1].type = W_downloadimported
    /\ Keyed(handled[1])
    /\ \E i \in 1..Len(merged) :
          merged[i].src = "radarr" /\ merged[i].type = W_downloadFolderImported


\* C38: merging one event changes only the entry of that event's media key
\* in that event's namespace: every other entry of the namespace and the
\* whole other namespace are unchanged, no other entry appears, and the
\* removed list of no entry is modified.
C38_MergeChangesOneEntry ==
    [][\A i \in 1..Len(CallOfStep) :
          LET c == CallOfStep[i]
              k == Key(c)
          IN  /\ \A j \in Keys(catalog) \ {k} :
                    HasEntry(catalog', j) /\ EntryOf(catalog', j) = EntryOf(catalog, j)
              /\ Keys(catalog') = Keys(catalog) \cup {k}
              /\ c.src = "radarr" => catalog'.sonarr = catalog.sonarr
              /\ c.src = "sonarr" => catalog'.radarr = catalog.radarr
              /\ \A j \in Keys(catalog') :
                    EntryOf(catalog', j).removed = EntryOf(catalog, j).removed]_vars

\* an episode and two movies have an entry each, the last one made by the
\* third merge, and the first movie's entry is as its single event left it
C38_Witness ==
    /\ Len(merged) = 3
    /\ merged[1].src = "sonarr" /\ merged[2].src = "radarr" /\ merged[3].src = "radarr"
    /\ merged[2].id # merged[3].id
    /\ Cardinality(Keys(catalog)) = 3
    /\ EntryOf(catalog, Key(merged[2])).candidates = <<merged[2].add_hash>>
    /\ EntryOf(catalog, Key(merged[1])).candidates = <<merged[1].add_hash>>


\* the hash is, whatever its case, the hash of a torrent the client listed
Live(h) == \E t \in QbTorrents : Truthy(t.hash) /\ Lower(t.hash) = Lower(h)

\* the hashes an entry gained in a step, in candidates or as latest
Gained(e, f) ==
    (Range(f.candidates) \ Range(e.candidates))
        \cup (IF Truthy(f.latest) /\ f.latest # e.latest THEN {f.latest} ELSE {})

\* C39: in a build run with the qb-only option, every hash added to the
\* candidates of an entry or set as its latest is the hash, compared
\* case-insensitively, of a torrent of the list fetched when the run
\* started; a record with an empty hash or with a hash the client does not
\* know changes nothing.
C39_QbOnlyKeepsLiveHashes ==
    [][qb_only /\ LoopStep =>
          LET c == handled'[1]
              h == IF Truthy(c.raw) THEN Strip(c.raw) ELSE <<>>
          IN  /\ \A k \in Keys(catalog') :
                    \A g \in Gained(EntryOf(catalog, k), EntryOf(catalog', k)) : Live(g)
              /\ (h = <<>> \/ ~Live(h)) => catalog' = catalog /\ merged' = merged]_vars

\* a qb-only run merged a record whose hash the client lists in another
\* case, and then skipped a record of the same movie with an unknown hash
C39_Witness ==
    /\ qb_only
    /\ pc_c = "radarr"
    /\ handled # <<>>
    /\ Truthy(handled[1].raw) /\ ~Live(handled[1].raw)
    /\ Allowed(handled[1]) /\ Keyed(handled[1])
    /\ Len(merged) >= 1
    /\ Key(merged[Len(merged)]) = [ns |-> "radarr", sid |-> None, id |-> handled[1].id]
    /\ \E t \in QbTorrents : t.hash # merged[Len(merged)].add_hash
                              /\ Lower(t.hash) = merged[Len(merged)].add_hash
    /\ EntryOf(catalog, Key(merged[Len(merged)])).latest = merged[Len(merged)].add_hash


(***************************************************************************)
(* Properties of a run of build_catalog, checked under SpecBuild           *)
(***************************************************************************)
\* the file the run found was absent or not a JSON text
Unreadable == b_file0.kind \in {"absent", "garbage"}

\* the run has just loaded the catalog
JustLoaded == b_trace # <<>> /\ b_trace[Len(b_trace)].ev = "load"

\* a dictionary with the two namespaces
WellFormed(cat) == {"sonarr", "radarr"} \subseteq DOMAIN cat

\* C35: load_catalog never fails the run: when the catalog file is absent or
\* its content is unreadable it returns an empty well-formed catalog with
\* both namespaces, and the build goes on to merge into it without error.
C35_LoadNeverFails ==
    Unreadable =>
        /\ JustLoaded =>
              /\ WellFormed(b_catalog)
              /\ DOMAIN b_catalog.sonarr = {} /\ DOMAIN b_catalog.radarr = {}
        /\ b_error \notin {"load", "merge"}
        /\ b_pc \in {"sonarr", "radarr", "save", "done"} => WellFormed(b_catalog)

\* a run that found an unreadable file has merged a movie and an episode and
\* has saved the catalog
C35_Witness ==
    /\ b_file0 = FileGarbage
    /\ b_pc = "done"
    /\ b_file.kind = "json"
    /\ WellFormed(b_file.doc)
    /\ DOMAIN b_file.doc.radarr # {} /\ DOMAIN b_file.doc.sonarr # {}

\* the positions of the trace at which the catalog file was replaced
Writes == {i \in 1..Len(b_trace) : b_trace[i].ev = "write" /\ b_trace[i].ok}

\* C37: a run writes the catalog file at most once, and a run that ends well
\* exactly once, as its last step, after every page of both sources was
\* merged: the file holds the catalog of the memory. A run ended by the
\* login, the listing or a history fetch leaves the file as it found it.
C37_SavedOnceAtTheEnd ==
    /\ Cardinality(Writes) <= 1
    /\ b_pc = "done" =>
          /\ Writes = {Len(b_trace)}
          /\ \A i \in 1..Len(b_trace) : b_trace[i].ok
          /\ b_file = JsonFile(b_catalog)
    /\ Writes = {} => b_file = b_file0
    /\ b_error \in {"login", "list", "fetch"} => Writes = {} /\ b_file = b_file0

\* a second run merged a page into the catalog the first run saved, and then
\* a fetch failed: the memory holds more than the file
C37_Witness ==
    /\ b_runs = 2
    /\ b_pc = "raised" /\ b_error = "fetch"
    /\ b_file0.kind = "json" /\ WellFormed(b_file0.doc)
    /\ DOMAIN b_file0.doc.radarr # {}
    /\ \E i \in 1..Len(b_trace) : b_trace[i].ev = "radarr"
    /\ b_catalog.radarr # b_file.doc.radarr
    /\ b_file = b_file0


(***************************************************************************)
(* Properties of radarr_history_export.py's event helpers, checked under   *)
(* SpecExport                                                              *)
(***************************************************************************)
\* the value of key k at each nesting level of an event, None when the level
\* is missing, is not an object, or has no such key
AtEvent(e, k) == IF k \in DOMAIN e.top THEN e.top[k] ELSE None

AtRaw(e, k) == IF e.raw.kind = "dict" /\ k \in DOMAIN e.raw.d THEN e.raw.d[k] ELSE None

AtData(e, k) ==
    IF e.raw.kind = "dict" /\ e.data.kind = "dict" /\ k \in DOMAIN e.data.d
    THEN e.data.d[k] ELSE None

\* the first non-null value of k in the order event, raw, raw.data
OutermostOf(e, k) ==
    IF AtEvent(e, k) # None THEN AtEvent(e, k)
    ELSE IF AtRaw(e, k) # None THEN AtRaw(e, k)
    ELSE AtData(e, k)

\* the first non-null value of k in the order raw.data, raw, event
InnermostOf(e, k) ==
    IF AtData(e, k) # None THEN AtData(e, k)
    ELSE IF AtRaw(e, k) # None THEN AtRaw(e, k)
    ELSE AtEvent(e, k)

\* the first of the keys that has a non-null value at some level of e; 0: none has
FirstKeyWithValue(e, keys) ==
    LET hits == {j \in 1..Len(keys) : InnermostOf(e, keys[j]) # None}
    IN  IF hits = {} THEN 0 ELSE CHOOSE j \in hits : \A l \in hits : j <= l

\* C33 as stated: for a requested key, the value returned is the event-level
\* one, then the one of the nested raw object, then the one of raw.data: the
\* first non-null hit in that order wins.
C33_EventLevelWins ==
    x_pc = "probed" =>
        \A i \in 1..Len(x_events) :
            LET e == x_events[i]
                j == FirstKeyWithValue(e, x_keys)
            IN  x_got[i] = IF j = 0 THEN None ELSE OutermostOf(e, x_keys[j])

\* C33, amended: for a requested key, the value returned is the one of
\* raw.data, then the one of the nested raw object, then the event-level
\* one: the first non-null hit in that order wins; of several keys, the
\* first that has a non-null value at any level wins.
C33_InnermostLevelWins ==
    x_pc = "probed" =>
        \A i \in 1..Len(x_events) :
            LET e == x_events[i]
                j == FirstKeyWithValue(e, x_keys)
            IN  x_got[i] = IF j = 0 THEN None ELSE InnermostOf(e, x_keys[j])

\* an event that holds three different download ids, one per level, was
\* asked for its download id: the answer is the one of raw.data
C33_Witness ==
    /\ x_pc = "probed"
    /\ x_keys = <<"downloadId">>
    /\ \E i \in 1..Len(x_events) :
          LET e == x_events[i]
          IN  /\ AtEvent(e, "downloadId") # None /\ AtRaw(e, "downloadId") # None
              /\ AtData(e, "downloadId") # None
              /\ AtEvent(e, "downloadId") # AtRaw(e, "downloadId")
              /\ AtRaw(e, "downloadId") # AtData(e, "downloadId")
              /\ AtEvent(e, "downloadId") # AtData(e, "downloadId")
              /\ x_got[i] = AtData(e, "downloadId")

\* the values of an event that are download hashes: what it holds, at any
\* level, under downloadId, torrentInfoHash or torrentHash
HashFields(e) ==
    { v \in UNION { {AtEvent(e, k), AtRaw(e, k), AtData(e, k)} :
                      k \in {"downloadId", "torrentInfoHash", "torrentHash"} } :
        v # None /\ v # <<>> }

\* C34 as stated: the last hash of a movie is a download hash of the most
\* recent of its events that carry one; it is never a value that is not a
\* download hash of one of its events, such as a record id, and it is None
\* when no event carries a download hash.
C34_LastHashIsADownloadHash ==
    x_pc = "hashed" =>
        LET carriers == {i \in 1..Len(x_events) : HashFields(x_events[i]) # {}}
        IN  IF carriers = {} THEN x_last = None
            ELSE \E i \in carriers :
                    /\ x_last \in HashFields(x_events[i])
                    /\ \A j \in carriers : x_events[j].date <= x_events[i].date


(***************************************************************************)
(* Further properties of relocated-torrent.py                              *)
(***************************************************************************)
\* C36, checked under SpecInProcess: whether a call of main is a dry run
\* depends on its own apply flag only: a call made without the flag sends
\* no setLocation and no recheck and writes no results of an apply phase,
\* whatever the calls made before it by the same process.
C36_DryRunIsPerInvocation ==
    ~args.apply => (MutatingCalls = {} /\ ~out_results.written)

\* the actions of the plan for which no target folder was resolved
Untargeted == {j \in 1..Len(actions) : actions[j].target_folder \in {None, Absent, <<>>}}

\* C40, checked under Spec: setLocation is never sent with an empty or
\* missing target folder. An action whose target was not resolved gets, in
\* an apply run, a row with both success flags false and a note, no
\* setLocation and no recheck is sent for its hash, and the actions after
\* it are still handled.
C40_NoSetLocationWithoutTarget ==
    /\ \A i \in 1..Len(qb_calls) :
          qb_calls[i].op = "setLocation" => qb_calls[i].location \notin {None, Absent, <<>>}
    /\ \A j \in Untargeted :
          /\ j <= ai =>
                /\ Len(results) >= j
                /\ results[j].hash = actions[j].hash
                /\ ~results[j].ok_setLocation /\ ~results[j].ok_recheck
                /\ results[j].notes # <<>>
          /\ CallsOf("setLocation", actions[j].hash) = {}
          /\ CallsOf("recheck", actions[j].hash) = {}
    /\ ApplyCompleted => Len(results) = Len(actions) /\ Len(out_results.rows) = Len(actions)

\* an apply run whose first action had no target folder and whose second
\* action was relocated and rechecked
C40_Witness ==
    /\ ApplyCompleted /\ Len(actions) = 2
    /\ 1 \in Untargeted
    /\ results[1].notes # <<>>
    /\ results[2].ok_setLocation /\ results[2].ok_recheck
    /\ \E i \in CallsOf("setLocation", actions[2].hash) : qb_calls[i].ok

====
